---------------------------- MODULE Spec2Model ----------------------------
(***************************************************************************)
(* Gas Town Council: the Router (internal/council/router.go, first half),  *)
(* the Fallback Manager with its per-provider circuit breakers             *)
(* (router.go, second half) and the configuration accessors they use       *)
(* (internal/council/config.go), the chain and ensemble executors with     *)
(* their votes (internal/council/patterns.go) and the Metrics Store        *)
(* (internal/council/metrics.go).                                          *)
(*                                                                         *)
(* Time is the wall clock in seconds.  Every region of code that runs      *)
(* under one acquisition of FallbackManager.mu or Router.mu is one atomic  *)
(* step; a method that releases the lock and takes it again (MaybeRecover, *)
(* RouteWithFallback) is a sequence of steps that other callers may        *)
(* interleave with.  The lock operations themselves, one at a time, are    *)
(* the steps of SpecLocks.                                                 *)
(***************************************************************************)
EXTENDS Integers, Sequences, FiniteSets, TLC

VARIABLES
    config,          \* Router.config / FallbackManager.router.config
    providerStatus,  \* Router.providerStatus   map[string]bool
    circuitBreaker,  \* FallbackManager.circuitBreaker map[string]*CircuitBreaker
    failureWindow,   \* FallbackManager.failureWindow  map[string][]time.Time
    now,             \* time.Now(), seconds
    sweep,           \* the goroutine running MaybeRecover: its position and toTest
    req,             \* the caller's *RouteRequest (RouteWithFallback writes to it)
    route,           \* the goroutine running RouteWithFallback: position, result
    streak,          \* history: failures recorded per provider since the last
                     \* recorded success or Reset
    hitLog,          \* history: the times of the rate-limit hits recorded per
                     \* provider since the last Reset
    last,            \* history: what the last step did, and the breaker state
                     \* and failure count it found
    chain,           \* a ChainExecutor and the goroutine running its Execute
    ensemble,        \* an EnsembleExecutor and the goroutines of its Execute
    metrics,         \* MetricsStore.metrics
    mu,              \* MetricsStore.mu is held by a writer
    file,            \* the document at MetricsStore.path
    callers,         \* the goroutines that call the MetricsStore
    taskLog,         \* history: the tasks recorded, in the order of recording
    locks            \* FallbackManager.mu and Router.mu, and the lock operations
                     \* that the goroutines inside a method have still to do

vars == <<config, providerStatus, circuitBreaker, failureWindow, now, sweep,
          req, route, streak, hitLog, last, chain, ensemble,
          metrics, mu, file, callers, taskLog, locks>>

\* the Metrics Store (metrics.go)
store == <<metrics, mu, file, callers, taskLog>>

\* the orchestration patterns (patterns.go)
patterns == <<chain, ensemble>>

\* the Router and the Fallback Manager (router.go)
council == <<config, providerStatus, circuitBreaker, failureWindow, now, sweep,
             req, route, streak, hitLog, last, locks>>

\* the data of the Router and the Fallback Manager
routing == <<config, providerStatus, circuitBreaker, failureWindow, now, sweep,
             req, route, streak, hitLog, last>>

---------------------------------------------------------------------------
(* Bounds of the model *)

\* the clock stops here
MaxTime == 90
\* seconds the clock advances in one step
TickSeconds == 30
\* no failure is recorded for a breaker whose FailureCount reached this
MaxFailureCount == 6
\* no rate-limit hit is recorded for a provider with this many hits since the
\* last Reset
MaxHits == 5
\* RouteWithFallback is not called on a request whose exclusion list would
\* grow beyond this
MaxExclude == 2

\* the largest number of files a task signal of SpecComplexity names
MaxFiles == 10

\* the task signals of SpecComplexity change up to 50 * MaxLineBlocks lines
MaxLineBlocks == 10

\* the clock of an ensemble stops here (seconds since Execute started)
MaxElapsed == 90

---------------------------------------------------------------------------
(* Program constants *)

\* NewFallbackManager: Threshold: 5
Threshold == 5
\* NewFallbackManager: ResetTimeout: 30 * time.Second
ResetTimeout == 30
\* recordRateLimit: cutoff := now.Add(-time.Minute)
RateLimitWindow == 60
\* recordRateLimit: if len(recent) >= 5
RateLimitHits == 5
\* the zero time.Time of a breaker that never opened: long before the clock starts
ZeroTime == 0 - 3600

ComplexityLow == 0
ComplexityMedium == 1
ComplexityHigh == 2

\* ComplexityLevel.String
ComplexityString(c) ==
    CASE c = ComplexityLow -> "low"
      [] c = ComplexityMedium -> "medium"
      [] c = ComplexityHigh -> "high"
      [] OTHER -> "unknown"

\* keys of the ProviderEndpoints map
ProviderEndpoints == {"anthropic", "openai", "google"}

---------------------------------------------------------------------------
(* Configuration (config.go) *)

\* a nil *ComplexityConfig
NilComplexity == [isNil |-> TRUE, High |-> "", Medium |-> "", Low |-> ""]

\* A council.toml as LoadConfig reads it: the role-model matrix of
\* DefaultCouncilConfig cut to two models per provider, with one provider
\* switched off and one provider (xai) that has no health endpoint.
CouncilConfig ==
    [ Roles |->
        [ mayor |->
            [ Model |-> "opus-4.5", Fallback |-> <<"sonnet-4.5", "grok">>,
              Rationale |-> "Strategic coordination requires sustained reasoning",
              ComplexityRouting |-> FALSE, Complexity |-> NilComplexity ],
          polecat |->
            [ Model |-> "sonnet-4.5", Fallback |-> <<"grok", "gpt-5.2">>,
              Rationale |-> "Best coding model for multi-file tasks",
              ComplexityRouting |-> TRUE,
              Complexity |-> [isNil |-> FALSE, High |-> "opus-4.5",
                              Medium |-> "sonnet-4.5", Low |-> "grok"] ],
          refinery |->
            [ Model |-> "opus-4.5", Fallback |-> <<"sonnet-4.5">>,
              Rationale |-> "",
              ComplexityRouting |-> FALSE,
              Complexity |-> [isNil |-> FALSE, High |-> "opus-4.5",
                              Medium |-> "sonnet-4.5", Low |-> "grok"] ],
          crew |->
            [ Model |-> "auto", Fallback |-> <<>>,
              Rationale |-> "User preference for interactive work",
              ComplexityRouting |-> FALSE, Complexity |-> NilComplexity ] ],
      hasDefaults |-> TRUE,
      Defaults |-> [ Model |-> "sonnet-4.5", Fallback |-> <<"gpt-5.2", "grok">> ],
      Providers |->
        [ anthropic |-> [ Enabled |-> TRUE,  Models |-> <<"opus-4.5", "sonnet-4.5">> ],
          openai    |-> [ Enabled |-> FALSE, Models |-> <<"gpt-5.2", "o4-mini">> ],
          xai       |-> [ Enabled |-> TRUE,  Models |-> <<"grok">> ] ] ]

\* GetModelForRole preferring the default model to the role's own
GetModelForRole_DefaultFirst(c, role) ==
    IF c.hasDefaults /\ c.Defaults.Model # ""
    THEN c.Defaults.Model
    ELSE IF role \in DOMAIN c.Roles /\ c.Roles[role].Model # ""
         THEN c.Roles[role].Model
         ELSE "auto"

\* Config.GetModelForRole
GetModelForRole(c, role) ==
    IF role \in DOMAIN c.Roles /\ c.Roles[role].Model # ""
    THEN c.Roles[role].Model
    ELSE IF c.hasDefaults /\ c.Defaults.Model # ""
         THEN c.Defaults.Model
         ELSE "auto"

\* GetFallbackChain handing out the list back to front
GetFallbackChain_Reversed(c, role) ==
    LET list == IF role \in DOMAIN c.Roles /\ Len(c.Roles[role].Fallback) > 0
                 THEN c.Roles[role].Fallback
                 ELSE IF c.hasDefaults THEN c.Defaults.Fallback ELSE <<>>
    IN  [i \in 1..Len(list) |-> list[Len(list) + 1 - i]]

\* Config.GetFallbackChain
GetFallbackChain(c, role) ==
    IF role \in DOMAIN c.Roles /\ Len(c.Roles[role].Fallback) > 0
    THEN c.Roles[role].Fallback
    ELSE IF c.hasDefaults THEN c.Defaults.Fallback ELSE <<>>

\* Config.GetRationale
GetRationale(c, role) ==
    IF role \in DOMAIN c.Roles THEN c.Roles[role].Rationale ELSE ""

\* Config.SupportsComplexityRouting
SupportsComplexityRouting(c, role) ==
    IF role \in DOMAIN c.Roles
    THEN c.Roles[role].ComplexityRouting /\ ~c.Roles[role].Complexity.isNil
    ELSE FALSE

\* Config.GetModelForComplexity
GetModelForComplexity(c, role, complexity) ==
    IF role \notin DOMAIN c.Roles
       \/ ~c.Roles[role].ComplexityRouting
       \/ c.Roles[role].Complexity.isNil
    THEN GetModelForRole(c, role)
    ELSE LET cx == c.Roles[role].Complexity
         IN  IF complexity = ComplexityHigh /\ cx.High # "" THEN cx.High
             ELSE IF complexity = ComplexityMedium /\ cx.Medium # "" THEN cx.Medium
             ELSE IF complexity = ComplexityLow /\ cx.Low # "" THEN cx.Low
             ELSE GetModelForRole(c, role)

---------------------------------------------------------------------------
(* Router: pure helpers (router.go 168-297) *)

\* contains: membership of item in the slice, by string equality
contains(slice, item) ==
    \E i \in 1..Len(slice) : slice[i] = item

\* hasPrefix: s starts with one of the prefixes
hasPrefix(s, prefixes) ==
    \E p \in prefixes : Len(s) >= Len(p) /\ SubSeq(s, 1, Len(p)) = p

\* ModelProvider
ModelProvider(model) ==
    IF hasPrefix(model, {"opus-", "sonnet-", "haiku-", "claude-"}) THEN "anthropic"
    ELSE IF hasPrefix(model, {"gpt-", "o4-"}) THEN "openai"
    ELSE IF hasPrefix(model, {"gemini-"}) THEN "google"
    ELSE IF model = "grok" THEN "xai"
    ELSE "unknown"

\* a nil *TaskInfo
NilTask ==
    [isNil |-> TRUE, FilesAffected |-> 0, LinesChanged |-> 0,
     IsArchitectural |-> FALSE, HasTests |-> FALSE]

\* assessComplexity taking a point off for a task that has tests
assessComplexity_TestsLower(task) ==
    IF task.isNil THEN ComplexityMedium
    ELSE LET files == IF task.FilesAffected >= 10 THEN 3
                      ELSE IF task.FilesAffected >= 5 THEN 2
                      ELSE IF task.FilesAffected >= 2 THEN 1 ELSE 0
             lines == IF task.LinesChanged >= 500 THEN 3
                      ELSE IF task.LinesChanged >= 200 THEN 2
                      ELSE IF task.LinesChanged >= 50 THEN 1 ELSE 0
             score == files + lines
                      + (IF task.IsArchitectural THEN 3 ELSE 0)
                      - (IF task.HasTests THEN 1 ELSE 0)
         IN  IF score >= 6 THEN ComplexityHigh
             ELSE IF score >= 3 THEN ComplexityMedium
             ELSE ComplexityLow

\* Router.assessComplexity
assessComplexity(task) ==
    IF task.isNil THEN ComplexityMedium
    ELSE LET files == IF task.FilesAffected >= 10 THEN 3
                      ELSE IF task.FilesAffected >= 5 THEN 2
                      ELSE IF task.FilesAffected >= 2 THEN 1 ELSE 0
             lines == IF task.LinesChanged >= 500 THEN 3
                      ELSE IF task.LinesChanged >= 200 THEN 2
                      ELSE IF task.LinesChanged >= 50 THEN 1 ELSE 0
             score == files + lines
                      + (IF task.IsArchitectural THEN 3 ELSE 0)
                      + (IF task.HasTests THEN 1 ELSE 0)
         IN  IF score >= 6 THEN ComplexityHigh
             ELSE IF score >= 3 THEN ComplexityMedium
             ELSE ComplexityLow

\* isModelAvailable without the check of the exclusion list
isModelAvailable_IgnoresExclusions(status, model, excludeProviders) ==
    LET provider == ModelProvider(model)
    IN  ~(provider \in DOMAIN status /\ ~status[provider])

\* Router.isModelAvailable, reading the status map `status`
isModelAvailable(status, model, excludeProviders) ==
    LET provider == ModelProvider(model)
    IN  /\ ~contains(excludeProviders, provider)
        /\ ~(provider \in DOMAIN status /\ ~status[provider])


\* Router.SetProviderStatus: the status map after the write
SetProviderStatus(status, provider, available) ==
    [p \in DOMAIN status \cup {provider} |->
        IF p = provider THEN available ELSE status[p]]

\* a *RouteResult (ok) or the error Route returns with a nil result
RouteResult(model, provider, rationale, complexity, fallback, reason) ==
    [ok |-> TRUE, Model |-> model, Provider |-> provider, Rationale |-> rationale,
     Complexity |-> complexity, Fallback |-> fallback, FallbackReason |-> reason,
     Error |-> ""]

RouteError(role) ==
    [ok |-> FALSE, Model |-> "", Provider |-> "", Rationale |-> "",
     Complexity |-> ComplexityLow, Fallback |-> FALSE, FallbackReason |-> "",
     Error |-> "no available models for role " \o role]

\* the last-resort loop passing over the providers that are marked down
EmergencyProviders_IgnoresStatus(c, status, r) ==
    {p \in DOMAIN c.Providers :
        /\ ~contains(r.ExcludeProviders, p)
        /\ Len(c.Providers[p].Models) > 0}

\* Router.Route, last resort: the providers of the configuration at which the
\* loop can return, those marked available, not excluded and with a model
EmergencyProviders(c, status, r) ==
    {p \in DOMAIN c.Providers :
        /\ p \in DOMAIN status /\ status[p]
        /\ ~contains(r.ExcludeProviders, p)
        /\ Len(c.Providers[p].Models) > 0}

\* Router.Route on configuration c, status map `status` and request r: the set
\* of results the call can return.  The last-resort loop ranges over the
\* Providers map, whose iteration order Go leaves unspecified, so every
\* eligible provider with a model can be the one it meets first.
Route(c, status, r) ==
    LET override == r.PreferredModel # "" /\ r.PreferredModel # "auto"
        reason0 == IF override
                   THEN "Preferred model " \o r.PreferredModel \o " unavailable"
                   ELSE ""
        complexity == assessComplexity(r.Task)
        byComplexity == SupportsComplexityRouting(c, r.Role)
        model == IF byComplexity
                 THEN GetModelForComplexity(c, r.Role, complexity)
                 ELSE GetModelForRole(c, r.Role)
        rationale == IF byComplexity
                     THEN "Complexity-based routing: "
                          \o ComplexityString(complexity) \o " task"
                     ELSE IF GetRationale(c, r.Role) = ""
                          THEN "Role-based model selection"
                          ELSE GetRationale(c, r.Role)
        fallbacks == GetFallbackChain(c, r.Role)
        usable == {i \in 1..Len(fallbacks) :
                     isModelAvailable(status, fallbacks[i], r.ExcludeProviders)}
        first == CHOOSE i \in usable : \A j \in usable : i <= j
        lastResort == EmergencyProviders(c, status, r)
    IN  IF override /\ isModelAvailable(status, r.PreferredModel, r.ExcludeProviders)
        THEN {RouteResult(r.PreferredModel, ModelProvider(r.PreferredModel),
                          "User-specified model preference", ComplexityLow,
                          FALSE, "")}
        ELSE IF isModelAvailable(status, model, r.ExcludeProviders)
        THEN {RouteResult(model, ModelProvider(model), rationale, complexity,
                          override, reason0)}
        ELSE IF usable # {}
        THEN {RouteResult(fallbacks[first], ModelProvider(fallbacks[first]),
                          rationale, complexity, TRUE,
                          IF reason0 = ""
                          THEN "Primary model " \o model \o " unavailable"
                          ELSE reason0)}
        ELSE IF lastResort # {}
        THEN {RouteResult(c.Providers[p].Models[1], p, rationale, complexity, TRUE,
                          "All preferred models unavailable, using emergency fallback")
              : p \in lastResort}
        ELSE {RouteError(r.Role)}

---------------------------------------------------------------------------
(* Fallback Manager (router.go 350-687) *)

\* a CircuitBreaker as NewFallbackManager creates it
NewCircuitBreaker ==
    [State |-> "closed", FailureCount |-> 0, OpenedAt |-> ZeroTime,
     Threshold |-> Threshold, ResetTimeout |-> ResetTimeout]

\* failureWindow[provider], the empty slice for a key the map does not hold
Window(provider) ==
    IF provider \in DOMAIN failureWindow THEN failureWindow[provider] ELSE <<>>

\* recordRateLimit's cleaning loop: the entries of s with t.After(cutoff)
RECURSIVE Filter(_, _)
Filter(s, cutoff) ==
    IF s = <<>> THEN <<>>
    ELSE IF Head(s) > cutoff
         THEN <<Head(s)>> \o Filter(Tail(s), cutoff)
         ELSE Filter(Tail(s), cutoff)

\* recordFailure opening the circuit one failure late (> for >=)
recordFailure_OneLate(provider) ==
    IF provider \notin DOMAIN circuitBreaker
    THEN UNCHANGED <<circuitBreaker, providerStatus, failureWindow>>
    ELSE LET cb == circuitBreaker[provider]
             count == cb.FailureCount + 1
             opens == cb.State = "closed" /\ count > cb.Threshold
         IN  /\ circuitBreaker' =
                  [circuitBreaker EXCEPT ![provider] =
                     [cb EXCEPT !.FailureCount = count,
                                !.State = IF opens THEN "open" ELSE @,
                                !.OpenedAt = IF opens THEN now ELSE @]]
             /\ providerStatus' =
                  IF opens THEN SetProviderStatus(providerStatus, provider, FALSE)
                  ELSE providerStatus
             /\ UNCHANGED failureWindow

\* FallbackManager.recordFailure, one critical section of fm.mu
recordFailure(provider) ==
    IF provider \notin DOMAIN circuitBreaker
    THEN UNCHANGED <<circuitBreaker, providerStatus, failureWindow>>
    ELSE LET cb == circuitBreaker[provider]
             count == cb.FailureCount + 1
             opens == cb.State = "closed" /\ count >= cb.Threshold
         IN  /\ circuitBreaker' =
                  [circuitBreaker EXCEPT ![provider] =
                     [cb EXCEPT !.FailureCount = count,
                                !.State = IF opens THEN "open" ELSE @,
                                !.OpenedAt = IF opens THEN now ELSE @]]
             /\ providerStatus' =
                  IF opens THEN SetProviderStatus(providerStatus, provider, FALSE)
                  ELSE providerStatus
             /\ UNCHANGED failureWindow

\* recordSuccess without the reset of the count of a closed breaker
recordSuccess_KeepsCount(provider) ==
    IF provider \notin DOMAIN circuitBreaker
    THEN UNCHANGED <<circuitBreaker, providerStatus, failureWindow>>
    ELSE LET cb == circuitBreaker[provider]
         IN  /\ circuitBreaker' =
                  [circuitBreaker EXCEPT ![provider] =
                     IF cb.State = "half-open"
                     THEN [cb EXCEPT !.State = "closed", !.FailureCount = 0]
                     ELSE cb]
             /\ providerStatus' =
                  IF cb.State = "half-open"
                  THEN SetProviderStatus(providerStatus, provider, TRUE)
                  ELSE providerStatus
             /\ UNCHANGED failureWindow

\* recordSuccess closing a half-open circuit without telling the Router
recordSuccess_KeepsProviderDown(provider) ==
    IF provider \notin DOMAIN circuitBreaker
    THEN UNCHANGED <<circuitBreaker, providerStatus, failureWindow>>
    ELSE LET cb == circuitBreaker[provider]
         IN  /\ circuitBreaker' =
                  [circuitBreaker EXCEPT ![provider] =
                     IF cb.State = "half-open"
                     THEN [cb EXCEPT !.State = "closed", !.FailureCount = 0]
                     ELSE IF cb.State = "closed"
                          THEN [cb EXCEPT !.FailureCount = 0]
                          ELSE cb]
             /\ UNCHANGED <<providerStatus, failureWindow>>

\* FallbackManager.recordSuccess, one critical section of fm.mu
recordSuccess(provider) ==
    IF provider \notin DOMAIN circuitBreaker
    THEN UNCHANGED <<circuitBreaker, providerStatus, failureWindow>>
    ELSE LET cb == circuitBreaker[provider]
         IN  /\ circuitBreaker' =
                  [circuitBreaker EXCEPT ![provider] =
                     IF cb.State = "half-open"
                     THEN [cb EXCEPT !.State = "closed", !.FailureCount = 0]
                     ELSE IF cb.State = "closed"
                          THEN [cb EXCEPT !.FailureCount = 0]
                          ELSE cb]
             /\ providerStatus' =
                  IF cb.State = "half-open"
                  THEN SetProviderStatus(providerStatus, provider, TRUE)
                  ELSE providerStatus
             /\ UNCHANGED failureWindow

\* recordRateLimit without the cleaning of entries older than a minute
recordRateLimit_KeepsOld(provider) ==
    LET recent == Append(Window(provider), now)
        opens == /\ Len(recent) >= RateLimitHits
                 /\ provider \in DOMAIN circuitBreaker
                 /\ circuitBreaker[provider].State = "closed"
    IN  /\ failureWindow' =
              [p \in DOMAIN failureWindow \cup {provider} |->
                  IF p = provider THEN recent ELSE failureWindow[p]]
        /\ circuitBreaker' =
              IF opens
              THEN [circuitBreaker EXCEPT ![provider].State = "open",
                                          ![provider].OpenedAt = now]
              ELSE circuitBreaker
        /\ providerStatus' =
              IF opens THEN SetProviderStatus(providerStatus, provider, FALSE)
              ELSE providerStatus

\* FallbackManager.recordRateLimit, one critical section of fm.mu
recordRateLimit(provider) ==
    LET cutoff == now - RateLimitWindow
        recent == Filter(Append(Window(provider), now), cutoff)
        opens == /\ Len(recent) >= RateLimitHits
                 /\ provider \in DOMAIN circuitBreaker
                 /\ circuitBreaker[provider].State = "closed"
    IN  /\ failureWindow' =
              [p \in DOMAIN failureWindow \cup {provider} |->
                  IF p = provider THEN recent ELSE failureWindow[p]]
        /\ circuitBreaker' =
              IF opens
              THEN [circuitBreaker EXCEPT ![provider].State = "open",
                                          ![provider].OpenedAt = now]
              ELSE circuitBreaker
        /\ providerStatus' =
              IF opens THEN SetProviderStatus(providerStatus, provider, FALSE)
              ELSE providerStatus


\* an error value: nil, or an error whose Error() is `text`
NilError == [isNil |-> TRUE, text |-> ""]

NewError(text) == [isNil |-> FALSE, text |-> text]

\* isRateLimitError
isRateLimitError(err) ==
    IF err.isNil THEN FALSE
    ELSE \/ contains(<<err.text>>, "rate limit")
         \/ contains(<<err.text>>, "429")
         \/ contains(<<err.text>>, "too many requests")

\* the recording path RecordRequestOutcome takes
OutcomePath(success, err) ==
    IF success THEN "recordSuccess"
    ELSE IF ~err.isNil /\ isRateLimitError(err) THEN "recordRateLimit"
    ELSE "recordFailure"

\* the outcome of the HEAD request of CheckHealth: an HTTP status code, or
\* NetworkError when client.Do returns an error
NetworkError == 0
StatusOK == 200
StatusUnauthorized == 401
StatusForbidden == 403
StatusTooManyRequests == 429

\* CheckHealth: health.Available for a probe outcome
Available(status) ==
    status # NetworkError /\ status \in {StatusOK, StatusUnauthorized, StatusForbidden}

\* the recording path CheckHealth takes for a probe outcome
HealthPath(status) ==
    IF status = NetworkError THEN "recordFailure"
    ELSE IF status \in {StatusOK, StatusUnauthorized, StatusForbidden}
         THEN "recordSuccess"
    ELSE IF status = StatusTooManyRequests THEN "recordRateLimit"
    ELSE "recordFailure"

\* the call of the recording method named by `path`
Record(path, provider) ==
    CASE path = "recordSuccess" -> recordSuccess(provider)
      [] path = "recordRateLimit" -> recordRateLimit(provider)
      [] OTHER -> recordFailure(provider)

\* The model records no failure for a breaker whose count is at its bound and
\* no hit for a provider whose log is at its bound.
WithinBounds(path, provider) ==
    /\ path = "recordFailure" /\ provider \in DOMAIN circuitBreaker
          => circuitBreaker[provider].FailureCount < MaxFailureCount
    /\ path = "recordRateLimit" /\ provider \in DOMAIN hitLog
          => Len(hitLog[provider]) < MaxHits

\* the breaker state of a provider, "" for a provider without a breaker
StateOf(provider) ==
    IF provider \in DOMAIN circuitBreaker THEN circuitBreaker[provider].State ELSE ""

\* the failure count of a provider's breaker
CountOf(provider) ==
    IF provider \in DOMAIN circuitBreaker
    THEN circuitBreaker[provider].FailureCount ELSE 0

\* the value of `last` after a step on `provider`
Step(call, provider, path, err) ==
    [call |-> call, provider |-> provider, path |-> path,
     pre |-> StateOf(provider), count |-> CountOf(provider),
     success |-> (path = "recordSuccess"), err |-> err]

\* streak and hitLog after a recording step
History(provider, path) ==
    /\ streak' = [p \in DOMAIN streak |->
                    IF p # provider THEN streak[p]
                    ELSE IF path = "recordFailure" THEN streak[p] + 1
                    ELSE IF path = "recordSuccess" THEN 0
                    ELSE streak[p]]
    /\ hitLog' = [p \in DOMAIN hitLog |->
                    IF p = provider /\ path = "recordRateLimit"
                    THEN Append(hitLog[p], now) ELSE hitLog[p]]

\* FallbackManager.RecordRequestOutcome
RecordRequestOutcome(provider, success, err) ==
    LET path == OutcomePath(success, err)
    IN  /\ WithinBounds(path, provider)
        /\ Record(path, provider)
        /\ History(provider, path)
        /\ last' = [Step("RecordRequestOutcome", provider, path, err)
                       EXCEPT !.success = success]
        /\ UNCHANGED <<store, patterns, locks, config, now, sweep, req, route>>

\* FallbackManager.CheckHealth called by any caller other than the sweep
\* (GetAllHealth, a status command).  The healthChecks entry it writes is read
\* by no method and is left out.
CheckHealth(provider, status) ==
    IF provider \notin ProviderEndpoints
    THEN /\ last' = Step("CheckHealth", provider, "error", NilError)
         /\ UNCHANGED <<store, patterns, locks, config, providerStatus, circuitBreaker, failureWindow, now,
                        sweep, req, route, streak, hitLog>>
    ELSE /\ WithinBounds(HealthPath(status), provider)
         /\ Record(HealthPath(status), provider)
         /\ History(provider, HealthPath(status))
         /\ last' = Step("CheckHealth", provider, HealthPath(status), NilError)
         /\ UNCHANGED <<store, patterns, locks, config, now, sweep, req, route>>

\* the orders in which a range over a map can yield the keys in S
Orderings(S) ==
    {s \in [1..Cardinality(S) -> S] : \A i, j \in DOMAIN s : i # j => s[i] # s[j]}

\* no call of MaybeRecover is running and StartBackgroundRecovery was not
\* called.  loop is the position of the goroutine of StartBackgroundRecovery
\* ("none" before it starts, "select", "call" from the receipt of a tick to
\* the return of MaybeRecover, "exited"), tick says that a tick waits in
\* ticker.C, cancelled that ctx is done.
NoSweep ==
    [pc |-> "idle", toTest |-> <<>>, loop |-> "none", tick |-> FALSE,
     cancelled |-> FALSE]

\* the position of the background goroutine when MaybeRecover moves to pc:
\* back at the select once the call it made has returned
LoopAfter(pc) ==
    IF sweep.loop = "call" /\ pc = "idle" THEN "select" ELSE sweep.loop

\* the sweep moves on to the next provider of toTest
SweepNext ==
    LET pc == IF Len(sweep.toTest) > 1 THEN "probe" ELSE "idle"
    IN  sweep' = [sweep EXCEPT !.pc = pc, !.toTest = Tail(sweep.toTest),
                               !.loop = LoopAfter(pc)]

\* MaybeRecover promoting every open breaker without waiting for ResetTimeout
MaybeRecover_NoWait ==
    /\ sweep.pc = "idle"
    /\ LET due == {p \in DOMAIN circuitBreaker : circuitBreaker[p].State = "open"}
       IN  /\ circuitBreaker' =
                [p \in DOMAIN circuitBreaker |->
                    IF p \in due
                    THEN [circuitBreaker[p] EXCEPT !.State = "half-open"]
                    ELSE circuitBreaker[p]]
           /\ \E order \in Orderings(due) :
                LET pc == IF due = {} THEN "idle" ELSE "probe"
                IN  sweep' = [sweep EXCEPT !.pc = pc, !.toTest = order,
                                           !.loop = LoopAfter(pc)]
    /\ last' = Step("MaybeRecover", "", "promote", NilError)
    /\ UNCHANGED <<store, patterns, locks, config, providerStatus, failureWindow, now, req, route, streak,
                   hitLog>>

\* FallbackManager.MaybeRecover, first critical section: promote the open
\* breakers whose ResetTimeout has passed
MaybeRecover ==
    /\ sweep.pc = "idle"
    /\ LET due == {p \in DOMAIN circuitBreaker :
                     /\ circuitBreaker[p].State = "open"
                     /\ now - circuitBreaker[p].OpenedAt > circuitBreaker[p].ResetTimeout}
       IN  /\ circuitBreaker' =
                [p \in DOMAIN circuitBreaker |->
                    IF p \in due
                    THEN [circuitBreaker[p] EXCEPT !.State = "half-open"]
                    ELSE circuitBreaker[p]]
           /\ \E order \in Orderings(due) :
                LET pc == IF due = {} THEN "idle" ELSE "probe"
                IN  sweep' = [sweep EXCEPT !.pc = pc, !.toTest = order,
                                           !.loop = LoopAfter(pc)]
    /\ last' = Step("MaybeRecover", "", "promote", NilError)
    /\ UNCHANGED <<store, patterns, locks, config, providerStatus, failureWindow, now, req, route, streak,
                   hitLog>>

\* MaybeRecover, the CheckHealth call of its second loop for the provider at
\* the head of toTest
MaybeRecoverProbe(status) ==
    /\ sweep.pc = "probe"
    /\ LET provider == Head(sweep.toTest)
       IN  IF provider \notin ProviderEndpoints
           THEN /\ SweepNext
                /\ last' = Step("MaybeRecover", provider, "error", NilError)
                /\ UNCHANGED <<providerStatus, circuitBreaker, failureWindow, streak,
                               hitLog>>
           ELSE /\ WithinBounds(HealthPath(status), provider)
                /\ Record(HealthPath(status), provider)
                /\ History(provider, HealthPath(status))
                /\ last' = Step("MaybeRecover", provider, HealthPath(status), NilError)
                /\ IF Available(status)
                   THEN SweepNext
                   ELSE sweep' = [sweep EXCEPT !.pc = "reopen"]
    /\ UNCHANGED <<store, patterns, locks, config, now, req, route>>

\* the re-opening without the new OpenedAt
MaybeRecoverReopen_KeepsOpenedAt ==
    /\ sweep.pc = "reopen"
    /\ LET provider == Head(sweep.toTest)
       IN  /\ circuitBreaker' = [circuitBreaker EXCEPT ![provider].State = "open"]
           /\ last' = Step("MaybeRecover", provider, "reopen", NilError)
    /\ SweepNext
    /\ UNCHANGED <<store, patterns, locks, config, providerStatus, failureWindow, now, req, route, streak,
                   hitLog>>

\* MaybeRecover, the critical section that re-opens the circuit after a probe
\* that reported the provider unavailable
MaybeRecoverReopen ==
    /\ sweep.pc = "reopen"
    /\ LET provider == Head(sweep.toTest)
       IN  /\ circuitBreaker' =
                [circuitBreaker EXCEPT ![provider].State = "open",
                                       ![provider].OpenedAt = now]
           /\ last' = Step("MaybeRecover", provider, "reopen", NilError)
    /\ SweepNext
    /\ UNCHANGED <<store, patterns, locks, config, providerStatus, failureWindow, now, req, route, streak,
                   hitLog>>

\* StartBackgroundRecovery: the goroutine starts, makes its ticker and waits
\* in the select
StartBackgroundRecovery ==
    /\ sweep.loop = "none"
    /\ sweep' = [sweep EXCEPT !.loop = "select"]
    /\ last' = Step("StartBackgroundRecovery", "", "", NilError)
    /\ UNCHANGED <<store, patterns, locks, config, providerStatus, circuitBreaker,
                   failureWindow, now, req, route, streak, hitLog>>

\* checkInterval has passed: the ticker sends on ticker.C, a channel of
\* capacity one, and drops the tick when one is waiting
TickerFires ==
    /\ sweep.loop \in {"select", "call"}
    /\ ~sweep.tick
    /\ sweep' = [sweep EXCEPT !.tick = TRUE]
    /\ last' = Step("ticker", "", "", NilError)
    /\ UNCHANGED <<store, patterns, locks, config, providerStatus, circuitBreaker,
                   failureWindow, now, req, route, streak, hitLog>>

\* the owner of ctx cancels it
Cancel ==
    /\ ~sweep.cancelled
    /\ sweep' = [sweep EXCEPT !.cancelled = TRUE]
    /\ last' = Step("cancel", "", "", NilError)
    /\ UNCHANGED <<store, patterns, locks, config, providerStatus, circuitBreaker,
                   failureWindow, now, req, route, streak, hitLog>>

\* the select of the background goroutine takes <-ctx.Done(): return, and
\* the deferred ticker.Stop()
SweepSelectDone ==
    /\ sweep.loop = "select"
    /\ sweep.cancelled
    /\ sweep' = [sweep EXCEPT !.loop = "exited", !.tick = FALSE]
    /\ last' = Step("StartBackgroundRecovery", "", "return", NilError)
    /\ UNCHANGED <<store, patterns, locks, config, providerStatus, circuitBreaker,
                   failureWindow, now, req, route, streak, hitLog>>

\* the select takes <-ticker.C (with both cases ready Go picks either): the
\* goroutine is about to call fm.MaybeRecover(ctx)
SweepSelectTick ==
    /\ sweep.loop = "select"
    /\ sweep.tick
    /\ sweep' = [sweep EXCEPT !.loop = "call", !.tick = FALSE]
    /\ last' = Step("StartBackgroundRecovery", "", "tick", NilError)
    /\ UNCHANGED <<store, patterns, locks, config, providerStatus, circuitBreaker,
                   failureWindow, now, req, route, streak, hitLog>>

\* FallbackManager.Reset
Reset ==
    /\ circuitBreaker' =
         [p \in DOMAIN circuitBreaker |->
             [circuitBreaker[p] EXCEPT !.State = "closed", !.FailureCount = 0]]
    /\ providerStatus' =
         [p \in DOMAIN providerStatus \cup DOMAIN circuitBreaker |->
             IF p \in DOMAIN circuitBreaker THEN TRUE ELSE providerStatus[p]]
    /\ failureWindow' = [p \in {} |-> <<>>]
    /\ streak' = [p \in DOMAIN streak |-> 0]
    /\ hitLog' = [p \in DOMAIN hitLog |-> <<>>]
    /\ last' = Step("Reset", "", "", NilError)
    /\ UNCHANGED <<store, patterns, locks, config, now, sweep, req, route>>

\* the result slot of a call of Route that has not returned
NoResult ==
    [ok |-> FALSE, Model |-> "", Provider |-> "", Rationale |-> "",
     Complexity |-> ComplexityLow, Fallback |-> FALSE, FallbackReason |-> "",
     Error |-> ""]

\* the zero RouteRequest
ZeroRequest ==
    [Role |-> "", Task |-> NilTask, PreferredModel |-> "", ExcludeProviders |-> <<>>]

\* the routing goroutine between calls
NotRouting ==
    [pc |-> "idle", unavailable |-> <<>>, openAtCall |-> {}, result |-> NoResult]

\* the collection loop of RouteWithFallback taking the half-open breakers
OpenProviders_HalfOpen ==
    {p \in DOMAIN circuitBreaker : circuitBreaker[p].State = "half-open"}

\* the providers whose breaker is open
OpenProviders ==
    {p \in DOMAIN circuitBreaker : circuitBreaker[p].State = "open"}

\* the caller builds a request
NewRequest(r) ==
    /\ route.pc # "routing"
    /\ req' = r
    /\ route' = NotRouting
    /\ last' = Step("NewRequest", "", "", NilError)
    /\ UNCHANGED <<store, patterns, locks, config, providerStatus, circuitBreaker, failureWindow, now,
                   sweep, streak, hitLog>>

\* FallbackManager.RouteWithFallback up to the call of Route: collect the open
\* providers under fm.mu and append them to the request's exclusion list.
\* openAtCall (history) is the set of breakers that are open at this moment.
RouteWithFallback ==
    /\ route.pc # "routing"
    /\ \E unavailable \in Orderings(OpenProviders) :
          /\ Len(req.ExcludeProviders) + Len(unavailable) <= MaxExclude
          /\ req' = [req EXCEPT !.ExcludeProviders = @ \o unavailable]
          /\ route' = [pc |-> "routing", unavailable |-> unavailable,
                       openAtCall |-> {p \in DOMAIN circuitBreaker :
                                          circuitBreaker[p].State = "open"},
                       result |-> NoResult]
    /\ last' = Step("RouteWithFallback", "", "collect", NilError)
    /\ UNCHANGED <<store, patterns, locks, config, providerStatus, circuitBreaker, failureWindow, now,
                   sweep, streak, hitLog>>

\* RouteWithFallback: return fm.router.Route(req), under Router.mu
RouteWithFallbackRoute ==
    /\ route.pc = "routing"
    /\ \E result \in Route(config, providerStatus, req) :
          route' = [route EXCEPT !.pc = "done", !.result = result]
    /\ last' = Step("RouteWithFallback", "", "route", NilError)
    /\ UNCHANGED <<store, patterns, locks, config, providerStatus, circuitBreaker, failureWindow, now,
                   sweep, req, streak, hitLog>>

\* Router.Route called on the request without the Fallback Manager
RouterRoute ==
    /\ route.pc # "routing"
    /\ \E result \in Route(config, providerStatus, req) :
          route' = [pc |-> "done", unavailable |-> <<>>, openAtCall |-> {},
                    result |-> result]
    /\ last' = Step("Route", "", "route", NilError)
    /\ UNCHANGED <<store, patterns, locks, config, providerStatus, circuitBreaker, failureWindow, now,
                   sweep, req, streak, hitLog>>

\* Router.SetProviderStatus called by an operator of the router
MarkProvider(provider, available) ==
    /\ providerStatus' = SetProviderStatus(providerStatus, provider, available)
    /\ last' = Step("SetProviderStatus", "", "", NilError)
    /\ UNCHANGED <<store, patterns, locks, config, circuitBreaker, failureWindow, now, sweep, req, route,
                   streak, hitLog>>

\* the clock advances
Tick ==
    /\ now + TickSeconds <= MaxTime
    /\ now' = now + TickSeconds
    /\ last' = Step("Tick", "", "", NilError)
    /\ UNCHANGED <<store, patterns, locks, config, providerStatus, circuitBreaker, failureWindow, sweep,
                   req, route, streak, hitLog>>

---------------------------------------------------------------------------
(* The locks of router.go.  A method is the sequence of the operations it  *)
(* makes on fm.mu (FallbackManager.mu) and on r.mu (Router.mu), with the   *)
(* HTTP request of CheckHealth between them; what it computes under the    *)
(* locks is in the actions above.  A branch of the code gives a method     *)
(* several such sequences.                                                 *)

\* the largest number of providers one MaybeRecover probes
MaxProbed == 2

Op(op, m) == [op |-> op, mu |-> m]

\* Router.SetProviderStatus
SetProviderStatusLocks == <<Op("Lock", "r"), Op("Unlock", "r")>>

\* recordFailure, recordSuccess, recordRateLimit: fm.mu.Lock(), for a breaker
\* that changes state SetProviderStatus, and the deferred fm.mu.Unlock()
recordLocks ==
    {<<Op("Lock", "fm")>> \o inner \o <<Op("Unlock", "fm")>> :
        inner \in {<<>>, SetProviderStatusLocks}}

\* CheckHealth: nothing for an unknown provider; else the HEAD request, the
\* recording of its outcome, and the critical section of healthChecks
CheckHealthLocks ==
    {<<>>} \cup
    {<<Op("http", "")>> \o rec \o <<Op("Lock", "fm"), Op("Unlock", "fm")>> :
        rec \in recordLocks}

\* the second loop of MaybeRecover over n providers: CheckHealth and, after
\* a probe that found the provider unavailable, the re-opening
RECURSIVE testLocks(_)
testLocks(n) ==
    IF n = 0 THEN {<<>>}
    ELSE {check \o reopen \o rest :
             check \in CheckHealthLocks,
             reopen \in {<<>>, <<Op("Lock", "fm"), Op("Unlock", "fm")>>},
             rest \in testLocks(n - 1)}

\* a MaybeRecover that keeps fm.mu to its end (defer fm.mu.Unlock())
MaybeRecoverLocks_DeferUnlock ==
    {<<Op("Lock", "fm")>> \o tests \o <<Op("Unlock", "fm")>> :
        tests \in UNION {testLocks(n) : n \in 0..MaxProbed}}

\* MaybeRecover: the promotion under fm.mu, then the probes
MaybeRecoverLocks ==
    {<<Op("Lock", "fm"), Op("Unlock", "fm")>> \o tests :
        tests \in UNION {testLocks(n) : n \in 0..MaxProbed}}

\* RouteWithFallback: the collection under fm.mu.RLock(), then Router.Route
\* under r.mu.RLock()
RouteWithFallbackLocks ==
    {<<Op("RLock", "fm"), Op("RUnlock", "fm"),
       Op("RLock", "r"), Op("RUnlock", "r")>>}

\* Reset: fm.mu.Lock(), SetProviderStatus for each of the n breakers, and the
\* deferred fm.mu.Unlock()
RECURSIVE Repeat(_, _)
Repeat(ops, n) == IF n = 0 THEN <<>> ELSE ops \o Repeat(ops, n - 1)

ResetLocks ==
    {<<Op("Lock", "fm")>>
        \o Repeat(SetProviderStatusLocks, Cardinality(DOMAIN CouncilConfig.Providers))
        \o <<Op("Unlock", "fm")>>}

\* the goroutines and the methods each of them calls
Goroutines == {"sweep", "router", "recorder", "operator"}

Methods(g) ==
    CASE g = "sweep" -> MaybeRecoverLocks
      [] g = "router" -> RouteWithFallbackLocks
      [] g = "recorder" -> recordLocks \cup CheckHealthLocks
      [] OTHER -> ResetLocks

\* an unlocked sync.RWMutex
Unlocked == [writer |-> "", readers |-> {}]

\* both mutexes unlocked and no goroutine inside a method
NoLocks ==
    [mu |-> [fm |-> Unlocked, r |-> Unlocked],
     run |-> [g \in Goroutines |-> <<>>]]

\* the goroutines blocked in m.Lock(): a blocked Lock keeps new readers out
Waiting(m) ==
    {g \in Goroutines :
        /\ locks.run[g] # <<>>
        /\ Head(locks.run[g]) = Op("Lock", m)
        /\ locks.mu[m] # Unlocked}

\* m.Lock() or m.RLock() by g returns now
CanAcquire(g, o) ==
    IF o.op = "Lock" THEN locks.mu[o.mu] = Unlocked
    ELSE locks.mu[o.mu].writer = "" /\ Waiting(o.mu) \ {g} = {}

\* goroutine g calls a method
Call(g, ops) ==
    /\ locks.run[g] = <<>>
    /\ ops # <<>>
    /\ locks' = [locks EXCEPT !.run[g] = ops]
    /\ UNCHANGED <<store, patterns, routing>>

\* Lock() or RLock() returns
Acquire(g) ==
    /\ locks.run[g] # <<>>
    /\ LET o == Head(locks.run[g])
       IN  /\ o.op \in {"Lock", "RLock"}
           /\ CanAcquire(g, o)
           /\ locks' =
                [locks EXCEPT
                   !.run[g] = Tail(@),
                   !.mu[o.mu] = IF o.op = "Lock" THEN [@ EXCEPT !.writer = g]
                                ELSE [@ EXCEPT !.readers = @ \cup {g}]]
    /\ UNCHANGED <<store, patterns, routing>>

\* Unlock() or RUnlock()
Release(g) ==
    /\ locks.run[g] # <<>>
    /\ LET o == Head(locks.run[g])
       IN  /\ o.op \in {"Unlock", "RUnlock"}
           /\ locks' =
                [locks EXCEPT
                   !.run[g] = Tail(@),
                   !.mu[o.mu] = IF o.op = "Unlock" THEN [@ EXCEPT !.writer = ""]
                                ELSE [@ EXCEPT !.readers = @ \ {g}]]
    /\ UNCHANGED <<store, patterns, routing>>

\* client.Do returns: an answer, an error or the 10 s timeout of the client
ProbeAnswered(g) ==
    /\ locks.run[g] # <<>>
    /\ Head(locks.run[g]).op = "http"
    /\ locks' = [locks EXCEPT !.run[g] = Tail(@)]
    /\ UNCHANGED <<store, patterns, routing>>

---------------------------------------------------------------------------
(* Strings (package strings), as patterns.go uses them *)

\* strings.HasPrefix
HasPrefix(s, prefix) ==
    Len(s) >= Len(prefix) /\ SubSeq(s, 1, Len(prefix)) = prefix

\* strings.Index from position `from` on: the 0-based position of the first
\* occurrence of sub, -1 if there is none
RECURSIVE IndexFrom(_, _, _)
IndexFrom(s, sub, from) ==
    IF from + Len(sub) - 1 > Len(s) THEN 0 - 1
    ELSE IF SubSeq(s, from, from + Len(sub) - 1) = sub THEN from - 1
    ELSE IndexFrom(s, sub, from + 1)

\* strings.Index
Index(s, sub) == IndexFrom(s, sub, 1)

\* a ReplaceAll that replaces the first occurrence only
ReplaceAll_FirstOnly(s, old, new) ==
    LET at == Index(s, old)
    IN  IF at < 0 THEN s
        ELSE SubSeq(s, 1, at) \o new \o SubSeq(s, at + Len(old) + 1, Len(s))

\* strings.ReplaceAll (old is not empty): the occurrences are found left to
\* right and the text put in is not searched again
RECURSIVE ReplaceAll(_, _, _)
ReplaceAll(s, old, new) ==
    LET at == Index(s, old)
    IN  IF at < 0 THEN s
        ELSE SubSeq(s, 1, at) \o new
             \o ReplaceAll(SubSeq(s, at + Len(old) + 1, Len(s)), old, new)

\* unicode.IsSpace on the characters that occur
IsSpace(c) == c \in {" ", "\n", "\t", "\r"}

RECURSIVE TrimLeft(_)
TrimLeft(s) ==
    IF Len(s) > 0 /\ IsSpace(SubSeq(s, 1, 1))
    THEN TrimLeft(SubSeq(s, 2, Len(s))) ELSE s

RECURSIVE TrimRight(_)
TrimRight(s) ==
    IF Len(s) > 0 /\ IsSpace(SubSeq(s, Len(s), Len(s)))
    THEN TrimRight(SubSeq(s, 1, Len(s) - 1)) ELSE s

\* strings.TrimSpace
TrimSpace(s) == TrimRight(TrimLeft(s))

\* strings.Split
RECURSIVE Split(_, _)
Split(s, sep) ==
    LET at == Index(s, sep)
    IN  IF at < 0 THEN <<s>>
        ELSE <<SubSeq(s, 1, at)>> \o Split(SubSeq(s, at + Len(sep) + 1, Len(s)), sep)

\* strings.Join
RECURSIVE Join(_, _)
Join(parts, sep) ==
    IF Len(parts) = 0 THEN ""
    ELSE IF Len(parts) = 1 THEN parts[1]
    ELSE parts[1] \o sep \o Join(Tail(parts), sep)

---------------------------------------------------------------------------
(* Chain of models (patterns.go 149-285) *)

\* The fence that opens and closes a markdown code block.  The source has
\* three backquotes; a TLA+ string cannot hold a backquote, so the model's
\* outputs are fenced with three apostrophes.
CodeFence == "'''"

\* extractCodeBlocks, the loop over the lines
RECURSIVE scanBlocks(_, _, _, _)
scanBlocks(lines, inBlock, current, blocks) ==
    IF lines = <<>> THEN blocks
    ELSE LET line == Head(lines)
         IN  IF HasPrefix(line, CodeFence)
             THEN scanBlocks(Tail(lines), ~inBlock, IF inBlock THEN "" ELSE current,
                             IF inBlock THEN Append(blocks, current) ELSE blocks)
             ELSE IF inBlock
             THEN scanBlocks(Tail(lines), inBlock,
                             IF Len(current) > 0 THEN current \o "\n" \o line
                             ELSE current \o line,
                             blocks)
             ELSE scanBlocks(Tail(lines), inBlock, current, blocks)

\* extractCodeBlocks
extractCodeBlocks(s) == Join(scanBlocks(Split(s, "\n"), FALSE, "", <<>>), "\n\n")

\* applyTransform
applyTransform(output, transform) ==
    CASE transform = "extract_code" -> extractCodeBlocks(output)
      [] transform = "first_line" ->
            IF Index(output, "\n") >= 0
            THEN SubSeq(output, 1, Index(output, "\n")) ELSE output
      [] transform = "trim" -> TrimSpace(output)
      [] OTHER -> output

\* a *ModelResponse as an executor returns it.  Cost is in thousandths of a
\* dollar, Confidence in tenths (0 when the model gave none), Duration in
\* seconds.
ModelResponse(success, output, error, cost) ==
    [Success |-> success, Output |-> output, Error |-> error, Cost |-> cost,
     Confidence |-> 0, Duration |-> 0]

\* the response with the executor's confidence and duration set
Scored(response, confidence, duration) ==
    [response EXCEPT !.Confidence = confidence, !.Duration = duration]

\* what a call of ModelExecutor.Execute returns: (response, nil) or (nil, err)
Returned(response) == [err |-> NilError, response |-> response]

ReturnedError(text) ==
    [err |-> NewError(text), response |-> ModelResponse(FALSE, "", "", 0)]

\* (response, err), both set: the executor reports an error and what the
\* failed call has cost
ReturnedWithError(response, text) == [err |-> NewError(text), response |-> response]

\* the zero ChainResult
EmptyChainResult ==
    [Steps |-> <<>>, FinalOutput |-> "", TotalCost |-> 0, Success |-> FALSE,
     Error |-> ""]

\* no ChainExecutor yet
NoChain ==
    [pc |-> "none", config |-> [Steps |-> <<>>, StopOnError |-> FALSE],
     initialInput |-> "", i |-> 0, currentInput |-> "",
     result |-> EmptyChainResult, calls |-> <<>>]

\* NewChainExecutor(executor, config)
NewChainExecutor(cfg) ==
    /\ chain.pc = "none"
    /\ chain' = [chain EXCEPT !.pc = "ready", !.config = cfg]
    /\ UNCHANGED <<council, store, ensemble>>

\* ChainExecutor.Execute, the prompt of a step
BuildPrompt(template, currentInput) ==
    IF template = "" THEN currentInput
    ELSE ReplaceAll(template, "{{input}}", currentInput)

\* ChainExecutor.Execute after the loop: FinalOutput, and Success unless a
\* step failed
Finished(c) ==
    [c EXCEPT !.pc = "done",
              !.result.FinalOutput = c.currentInput,
              !.result.Success =
                  \A k \in 1..Len(c.result.Steps) : c.result.Steps[k].Success]

\* ChainExecutor.Execute up to the first call of the executor (to the return,
\* for a chain without steps)
ChainExecute(initialInput) ==
    /\ chain.pc = "ready"
    /\ LET started == [chain EXCEPT !.pc = "loop", !.initialInput = initialInput,
                                    !.i = 0, !.currentInput = initialInput,
                                    !.result = EmptyChainResult, !.calls = <<>>]
       IN  chain' = IF Len(chain.config.Steps) = 0 THEN Finished(started) ELSE started
    /\ UNCHANGED <<council, store, ensemble>>

\* ChainExecutor.Execute: one iteration of the loop, with the answer the
\* executor gives to its call; after the last step, the return.  calls
\* (history) lists the calls of the executor with their answers.
ChainStep(answer) ==
    /\ chain.pc = "loop"
    /\ LET i == chain.i + 1
           step == chain.config.Steps[i]
           prompt == BuildPrompt(step.Prompt, chain.currentInput)
           response == answer.response
           call == [Model |-> step.Model, Prompt |-> prompt, answer |-> answer]
           stepResult ==
               [Name |-> step.Name, Model |-> step.Model,
                Input |-> chain.currentInput,
                Output |-> IF answer.err.isNil THEN response.Output ELSE "",
                Success |-> IF answer.err.isNil THEN response.Success ELSE FALSE,
                Error |-> IF ~answer.err.isNil THEN answer.err.text
                          ELSE IF ~response.Success THEN response.Error ELSE ""]
           recorded == [chain EXCEPT !.i = i,
                                     !.calls = Append(@, call),
                                     !.result.Steps = Append(@, stepResult)]
           continued ==
               IF ~answer.err.isNil THEN recorded
               ELSE [recorded EXCEPT
                        !.result.TotalCost = @ + response.Cost,
                        !.currentInput =
                            IF step.TransformOutput # ""
                            THEN applyTransform(response.Output, step.TransformOutput)
                            ELSE response.Output]
       IN  chain' =
             IF ~answer.err.isNil /\ chain.config.StopOnError
             THEN [recorded EXCEPT
                      !.pc = "done",
                      !.result.Success = FALSE,
                      !.result.Error = "step " \o ToString(i) \o " (" \o step.Name
                                       \o ") failed: " \o answer.err.text]
             ELSE IF i = Len(chain.config.Steps) THEN Finished(continued)
             ELSE continued
    /\ UNCHANGED <<council, store, ensemble>>

---------------------------------------------------------------------------
(* Ensemble (patterns.go 286-346): Execute up to the end of the loop that  *)
(* collects the responses.  Each participant is a goroutine that calls the *)
(* executor and sends one ModelResponse on responseChan; one more          *)
(* goroutine closes the channel when the wait group is done; Execute       *)
(* ranges over the channel.  Nothing after the loop waits for anything.    *)

\* the timeout of an ensemble whose configuration leaves Timeout unset
DefaultEnsembleTimeout == 60

\* a float64 that is the quotient of two integers (den > 0)
Ratio(num, den) == [num |-> num, den |-> den]

\* the EnsembleResult Execute starts from
EmptyEnsembleResult ==
    [Responses |-> <<>>, Winner |-> "", WinnerOutput |-> "", Votes |-> <<>>,
     Agreement |-> Ratio(0, 1), Success |-> FALSE, Error |-> ""]

\* the zero EnsembleConfig
ZeroEnsembleConfig ==
    [Models |-> <<>>, VotingStrategy |-> "", Threshold |-> Ratio(0, 1),
     Timeout |-> 0, MinResponses |-> 0]

\* no EnsembleExecutor yet
NoEnsemble ==
    [pc |-> "none", config |-> ZeroEnsembleConfig, prompt |-> "",
     timeout |-> 0, elapsed |-> 0, hung |-> {}, calls |-> <<>>, answers |-> <<>>,
     late |-> {}, responseChan |-> <<>>, closed |-> FALSE,
     successfulResponses |-> 0, minResponses |-> 0,
     result |-> EmptyEnsembleResult, returned |-> FALSE, err |-> NilError]

\* NewEnsembleExecutor(executor, config)
NewEnsembleExecutor(cfg) ==
    /\ ensemble.pc = "none"
    /\ ensemble' = [ensemble EXCEPT !.pc = "ready", !.config = cfg]
    /\ UNCHANGED <<council, store, chain>>

\* EnsembleExecutor.Execute up to the start of the goroutines.  hung (the
\* executor's doing) is the set of participants whose call of the executor
\* never returns, whatever happens to the context.
EnsembleExecute(prompt, hung) ==
    /\ ensemble.pc = "ready"
    /\ ensemble' =
         [ensemble EXCEPT
            !.pc = "collecting",
            !.prompt = prompt,
            !.timeout = IF ensemble.config.Timeout = 0
                        THEN DefaultEnsembleTimeout ELSE ensemble.config.Timeout,
            !.elapsed = 0,
            !.hung = hung,
            !.calls = [i \in 1..Len(ensemble.config.Models) |-> "running"],
            !.answers = [i \in 1..Len(ensemble.config.Models) |-> Returned(
                            ModelResponse(FALSE, "", "", 0))],
            !.late = {},
            !.responseChan = <<>>,
            !.closed = FALSE,
            !.successfulResponses = 0,
            !.minResponses = 0,
            !.result = EmptyEnsembleResult,
            !.returned = FALSE,
            !.err = NilError]
    /\ UNCHANGED <<council, store, chain>>

\* a participant that sends nothing when its call returned an error
Delivered_DropsErrors(model, answer) ==
    IF ~answer.err.isNil THEN <<>>
    ELSE <<[Model |-> model, Success |-> answer.response.Success,
            Output |-> answer.response.Output, Error |-> answer.response.Error,
            Cost |-> answer.response.Cost,
            Confidence |-> answer.response.Confidence,
            Duration |-> answer.response.Duration]>>

\* what a participant goroutine sends on responseChan for the answer of the
\* executor: the response with its Model set, or a failure made of the error
Delivered(model, answer) ==
    IF ~answer.err.isNil
    THEN <<[Model |-> model, Success |-> FALSE, Output |-> "",
            Error |-> answer.err.text, Cost |-> 0, Confidence |-> 0,
            Duration |-> 0]>>
    ELSE <<[Model |-> model, Success |-> answer.response.Success,
            Output |-> answer.response.Output, Error |-> answer.response.Error,
            Cost |-> answer.response.Cost,
            Confidence |-> answer.response.Confidence,
            Duration |-> answer.response.Duration]>>

\* the deadline of the context has passed
DeadlineFired == ensemble.elapsed >= ensemble.timeout

\* a participant goroutine: the executor answers, the goroutine sends (the
\* channel has room for every participant) and is done.  late (history) is
\* the set of participants that answered after the deadline.
ParticipantReturns(i, answer) ==
    /\ ensemble.pc = "collecting"
    /\ i \in DOMAIN ensemble.calls
    /\ ensemble.calls[i] = "running"
    /\ i \notin ensemble.hung
    /\ ensemble' =
         [ensemble EXCEPT
            !.calls[i] = "returned",
            !.answers[i] = answer,
            !.late = IF DeadlineFired THEN @ \cup {i} ELSE @,
            !.responseChan = @ \o Delivered(ensemble.config.Models[i], answer)]
    /\ UNCHANGED <<council, store, chain>>

\* the goroutine that waits for the wait group and closes the channel
CloseChannel ==
    /\ ensemble.pc = "collecting"
    /\ ~ensemble.closed
    /\ \A i \in DOMAIN ensemble.calls : ensemble.calls[i] = "returned"
    /\ ensemble' = [ensemble EXCEPT !.closed = TRUE]
    /\ UNCHANGED <<council, store, chain>>

\* Execute, one iteration of `for response := range responseChan`
Receive ==
    /\ ensemble.pc = "collecting"
    /\ ensemble.responseChan # <<>>
    /\ ensemble' =
         [ensemble EXCEPT
            !.responseChan = Tail(@),
            !.result.Responses = Append(@, Head(ensemble.responseChan))]
    /\ UNCHANGED <<council, store, chain>>

\* Execute, the end of the range loop: the channel is closed and empty
EnsembleCollected ==
    /\ ensemble.pc = "collecting"
    /\ ensemble.responseChan = <<>>
    /\ ensemble.closed
    /\ ensemble' = [ensemble EXCEPT !.pc = "collected"]
    /\ UNCHANGED <<council, store, chain>>

\* time passes while Execute collects
DeadlineTick ==
    /\ ensemble.pc = "collecting"
    /\ ensemble.elapsed + TickSeconds <= MaxElapsed
    /\ ensemble' = [ensemble EXCEPT !.elapsed = @ + TickSeconds]
    /\ UNCHANGED <<council, store, chain>>

---------------------------------------------------------------------------
(* Voting (patterns.go 348-613).  A float64 that the code computes as a    *)
(* quotient is a Ratio; weights and scores are integers in tenths and      *)
(* hundredths.  A `range` over a Go map visits the keys in any order, so   *)
(* a vote is the SET of the (winner, agreement) pairs it can return.       *)

\* a comparison that also holds for equal floats
Less_OrEqual(a, b) == a.num * b.den <= b.num * a.den

\* a < b for the floats a and b
Less(a, b) == a.num * b.den < b.num * a.den

\* the floats a and b are equal
Same(a, b) == a.num * b.den = b.num * a.den

\* fmt.Sprintf("%.2f", a) for a >= 0
Format2(a) ==
    LET hundredths == (2 * 100 * a.num + a.den) \div (2 * a.den)
        cents == hundredths % 100
    IN  ToString(hundredths \div 100) \o "."
        \o (IF cents < 10 THEN "0" ELSE "") \o ToString(cents)

UpperCase == "ABCDEFGHIJKLMNOPQRSTUVWXYZ"
LowerCase == "abcdefghijklmnopqrstuvwxyz"

\* strings.ToLower (ASCII)
RECURSIVE ToLower(_)
ToLower(s) ==
    IF s = "" THEN ""
    ELSE LET c == SubSeq(s, 1, 1)
             up == {i \in 1..Len(UpperCase) : SubSeq(UpperCase, i, i) = c}
         IN  (IF up = {} THEN c
              ELSE LET i == CHOOSE i \in up : TRUE IN SubSeq(LowerCase, i, i))
             \o ToLower(SubSeq(s, 2, Len(s)))

\* strings.Fields: the maximal runs of characters that are not white space
RECURSIVE Fields(_)
Fields(s) ==
    LET t == TrimLeft(s)
        ends == {i \in 1..Len(t) : IsSpace(SubSeq(t, i, i))}
    IN  IF t = "" THEN <<>>
        ELSE IF ends = {} THEN <<t>>
        ELSE LET e == CHOOSE i \in ends : \A j \in ends : i <= j
             IN  <<SubSeq(t, 1, e - 1)>> \o Fields(SubSeq(t, e, Len(t)))

\* strings.TrimPrefix
TrimPrefix(s, prefix) ==
    IF HasPrefix(s, prefix) THEN SubSeq(s, Len(prefix) + 1, Len(s)) ELSE s

\* the prefixes normalizeOutput removes, in the order of the code
NormalizePrefixes ==
    <<"here is", "here's", "the answer is", "i think",
      "based on", "let me", "sure,", "certainly,">>

\* the loop of normalizeOutput over prefixes[k..]
RECURSIVE trimPrefixes(_, _)
trimPrefixes(s, k) ==
    IF k > Len(NormalizePrefixes) THEN s
    ELSE trimPrefixes(TrimPrefix(s, NormalizePrefixes[k]), k + 1)

normalizeOutput(s) ==
    TrimSpace(trimPrefixes(Join(Fields(ToLower(s)), " "), 1))

\* ModelResponse{}
ZeroResponse ==
    [Model |-> "", Success |-> FALSE, Output |-> "", Error |-> "", Cost |-> 0,
     Confidence |-> 0, Duration |-> 0]

\* what a vote returns
Vote(winner, agreement) == [winner |-> winner, agreement |-> agreement]

IsSuccess(r) == r.Success

\* the responses with Success set, in the order of the slice
Successful(responses) == SelectSeq(responses, IsSuccess)

\* the map counts / groups of a vote: for every normalized output of a
\* success, the successes with that normalized output, in the order of the
\* slice
Groups(responses) ==
    LET n == Len(responses)
        normalized == [k \in 1..n |-> normalizeOutput(responses[k].Output)]
        keys == {normalized[k] : k \in {j \in 1..n : responses[j].Success}}
        Members(key) ==
            LET InGroup(k) == responses[k].Success /\ normalized[k] = key
                ids == SelectSeq([k \in 1..n |-> k], InGroup)
            IN  [j \in 1..Len(ids) |-> responses[ids[j]]]
    IN  [key \in keys |-> Members(key)]

\* the keys of the map of a vote
Keys(responses) == DOMAIN Groups(responses)

\* counts[key] / groups[key]
Group(responses, key) == Groups(responses)[key]

\* voteMajority.  The loop over counts keeps the first key it meets among
\* those with the largest group: any of them.  A maxKey of "" is taken for
\* "no key".
voteMajority(responses) ==
    LET counts == Groups(responses)
        keys == DOMAIN counts
        maxKeys == {key \in keys : \A other \in keys :
                       Len(counts[key]) >= Len(counts[other])}
        successCount == Len(Successful(responses))
    IN  IF maxKeys = {} THEN {Vote(ZeroResponse, Ratio(0, 1))}
        ELSE {IF maxKey = "" THEN Vote(ZeroResponse, Ratio(0, 1))
              ELSE Vote(counts[maxKey][1],
                        Ratio(Len(counts[maxKey]), successCount)) :
              maxKey \in maxKeys}

\* the loop of voteConsensus over responses[k..]: (firstOutput,
\* firstResponse, allAgree) at its end
RECURSIVE consensusScan(_, _, _, _, _)
consensusScan(responses, k, firstOutput, firstResponse, allAgree) ==
    IF k > Len(responses)
    THEN [firstOutput |-> firstOutput, firstResponse |-> firstResponse,
          allAgree |-> allAgree]
    ELSE LET r == responses[k]
             normalized == normalizeOutput(r.Output)
         IN  IF ~r.Success
             THEN consensusScan(responses, k + 1, firstOutput, firstResponse,
                                allAgree)
             ELSE IF firstOutput = ""
             THEN consensusScan(responses, k + 1, normalized, r, allAgree)
             ELSE consensusScan(responses, k + 1, firstOutput, firstResponse,
                                allAgree /\ normalized = firstOutput)

voteConsensus(responses) ==
    LET scan == consensusScan(responses, 1, "", ZeroResponse, TRUE)
    IN  IF scan.allAgree /\ scan.firstOutput # ""
        THEN {Vote(scan.firstResponse, Ratio(1, 1))}
        ELSE voteMajority(responses)

\* the confidence voteWeighted counts for a response, in tenths
Weight(r) == IF r.Confidence = 0 THEN 5 ELSE r.Confidence

\* the sum of the weights of a slice of responses
RECURSIVE SumWeights(_)
SumWeights(responses) ==
    IF responses = <<>> THEN 0
    ELSE Weight(Head(responses)) + SumWeights(Tail(responses))

\* voteWeighted.  weights[key] is the sum over the group; the loop over
\* weights keeps the first key it meets among those of the largest weight.
voteWeighted(responses) ==
    LET groups == Groups(responses)
        keys == DOMAIN groups
        weights == [key \in keys |-> SumWeights(groups[key])]
        maxKeys == {key \in keys : weights[key] > 0 /\
                       \A other \in keys : weights[key] >= weights[other]}
        totalWeight == SumWeights(Successful(responses))
    IN  IF maxKeys = {} THEN {Vote(ZeroResponse, Ratio(0, 1))}
        ELSE {IF maxKey = "" THEN Vote(ZeroResponse, Ratio(0, 1))
              ELSE Vote(groups[maxKey][1],
                        Ratio(weights[maxKey], totalWeight)) :
              maxKey \in maxKeys}

\* hasStructuredOutput
hasStructuredOutput(s) ==
    \E indicator \in {"# ", "## ", "- ", "* ", CodeFence, "1. "} :
        Index(s, indicator) >= 0

\* scoreResponse, in hundredths
scoreResponse(r) ==
    LET length == Len(r.Output)
    IN  (IF r.Confidence > 0 THEN r.Confidence * 3 ELSE 0)
        + (IF length > 100 /\ length < 5000 THEN 20
           ELSE IF length >= 50 /\ length <= 10000 THEN 10 ELSE 0)
        + (IF r.Duration > 0 /\ r.Duration < 5 THEN 20
           ELSE IF r.Duration < 15 THEN 10 ELSE 0)
        + (IF r.Cost > 0 /\ r.Cost < 10 THEN 20
           ELSE IF r.Cost < 50 THEN 10 ELSE 0)
        + (IF hasStructuredOutput(r.Output) THEN 10 ELSE 0)

\* voteBest.  sort.Slice is not stable: among the successes of the highest
\* score any can come first.  The agreement is 0.5 + gap * 0.5, at most 1.
voteBest(responses) ==
    LET scored == Successful(responses)
        top == {k \in 1..Len(scored) : \A j \in 1..Len(scored) :
                   scoreResponse(scored[k]) >= scoreResponse(scored[j])}
        Second(k) ==
            CHOOSE j \in (1..Len(scored)) \ {k} :
                \A i \in (1..Len(scored)) \ {k} :
                    scoreResponse(scored[j]) >= scoreResponse(scored[i])
    IN  IF Len(scored) = 0 THEN {Vote(ZeroResponse, Ratio(0, 1))}
        ELSE IF Len(scored) = 1 THEN {Vote(scored[1], Ratio(1, 1))}
        ELSE {LET gap == scoreResponse(scored[k]) - scoreResponse(scored[Second(k)])
                  agreement == Ratio(100 + gap, 200)
              IN  Vote(scored[k],
                       IF Less(Ratio(1, 1), agreement) THEN Ratio(1, 1)
                       ELSE agreement) :
              k \in top}

\* EnsembleExecutor.vote
vote(strategy, responses) ==
    CASE strategy = "consensus" -> voteConsensus(responses)
      [] strategy = "weighted" -> voteWeighted(responses)
      [] strategy = "best" -> voteBest(responses)
      [] OTHER -> voteMajority(responses)

\* a minimum that is half of the models, without the one more
MinResponses_Half(cfg) ==
    IF cfg.MinResponses = 0 THEN Len(cfg.Models) \div 2
    ELSE cfg.MinResponses

\* the minimum of successes Execute asks for
MinResponses(cfg) ==
    IF cfg.MinResponses = 0 THEN Len(cfg.Models) \div 2 + 1
    ELSE cfg.MinResponses

\* Execute after the collection: the count of the successes, the minimum,
\* the vote and the threshold; Execute returns (result, nil): returned is
\* set and err is the error returned.
EnsembleFinish ==
    /\ ensemble.pc = "collected"
    /\ LET responses == ensemble.result.Responses
           successfulResponses == Len(Successful(responses))
           minResponses == MinResponses(ensemble.config)
       IN  IF successfulResponses < minResponses
           THEN ensemble' =
                  [ensemble EXCEPT
                     !.pc = "done",
                     !.returned = TRUE,
                     !.err = NilError,
                     !.successfulResponses = successfulResponses,
                     !.minResponses = minResponses,
                     !.result.Success = FALSE,
                     !.result.Error =
                         "insufficient responses: got "
                         \o ToString(successfulResponses) \o ", need "
                         \o ToString(minResponses)]
           ELSE \E v \in vote(ensemble.config.VotingStrategy, responses) :
                  ensemble' =
                    [ensemble EXCEPT
                       !.pc = "done",
                       !.returned = TRUE,
                       !.err = NilError,
                       !.successfulResponses = successfulResponses,
                       !.minResponses = minResponses,
                       !.result.Winner = v.winner.Model,
                       !.result.WinnerOutput = v.winner.Output,
                       !.result.Agreement = v.agreement,
                       !.result.Success =
                           ~Less(v.agreement, ensemble.config.Threshold),
                       !.result.Error =
                           IF Less(v.agreement, ensemble.config.Threshold)
                           THEN "agreement " \o Format2(v.agreement)
                                \o " below threshold "
                                \o Format2(ensemble.config.Threshold)
                           ELSE ""]
    /\ UNCHANGED <<council, store, chain>>

---------------------------------------------------------------------------
(* Metrics Store (metrics.go).  Durations are in seconds, costs in         *)
(* thousandths of a dollar, a rate is a Ratio.  RecordTask holds s.mu for  *)
(* its updates, releases it for save() and takes it again to return; a     *)
(* statement of RecordTask is visible at once to a goroutine that reads    *)
(* the store's memory without the lock.  UpdatedAt is left out.            *)

\* map[string]... with no key
EmptyMap == [k \in {} |-> 0]

\* m[key] = value
Put(m, key, value) ==
    [k \in DOMAIN m \cup {key} |-> IF k = key THEN value ELSE m[k]]

\* m[key] of a map[string]int
Count(m, key) == IF key \in DOMAIN m THEN m[key] ELSE 0

\* float64(a) / float64(b), or the zero value when the code does not divide
Rate(a, b) == IF b > 0 THEN Ratio(a, b) ELSE Ratio(0, 1)

TaskMetric(id, role, model, provider, duration, tokens, cost, success) ==
    [ID |-> id, Role |-> role, Model |-> model, Provider |-> provider,
     Duration |-> duration, Tokens |-> tokens, Cost |-> cost,
     Success |-> success]

\* &Metrics{...} of NewMetricsStore, no file at s.path
EmptyMetrics ==
    [ByRole |-> EmptyMap, ByModel |-> EmptyMap, ByProvider |-> EmptyMap,
     TaskHistory |-> <<>>]

\* &RoleMetrics{Role: task.Role, ModelUsage: ...}
NewRoleMetrics(role) ==
    [Role |-> role, TotalTasks |-> 0, CompletedTasks |-> 0, FailedTasks |-> 0,
     TotalDuration |-> 0, TotalTokens |-> 0, TotalCost |-> 0,
     ModelUsage |-> EmptyMap, AvgDuration |-> 0, SuccessRate |-> Ratio(0, 1)]

\* &ModelMetrics{Model: task.Model, Provider: task.Provider, RoleUsage: ...}
NewModelMetrics(model, provider) ==
    [Model |-> model, Provider |-> provider, TotalTasks |-> 0,
     CompletedTasks |-> 0, FailedTasks |-> 0, TotalDuration |-> 0,
     TotalTokens |-> 0, TotalCost |-> 0, AvgDuration |-> 0,
     SuccessRate |-> Ratio(0, 1), RoleUsage |-> EmptyMap]

\* &ProviderMetrics{Provider: task.Provider}
NewProviderMetrics(provider) ==
    [Provider |-> provider, TotalTasks |-> 0, CompletedTasks |-> 0,
     FailedTasks |-> 0, TotalCost |-> 0, RateLimitHits |-> 0,
     AvgLatency |-> 0, Availability |-> Ratio(0, 1)]

\* TotalTasks++ and CompletedTasks++ or FailedTasks++
Counted(agg, task) ==
    [agg EXCEPT !.TotalTasks = @ + 1,
                !.CompletedTasks = IF task.Success THEN @ + 1 ELSE @,
                !.FailedTasks = IF task.Success THEN @ ELSE @ + 1]

\* RecordTask, role metrics: the entry of the role and its counters
updateRoleCounts(m, task) ==
    LET rm == IF task.Role \in DOMAIN m.ByRole THEN m.ByRole[task.Role]
              ELSE NewRoleMetrics(task.Role)
    IN  [m EXCEPT !.ByRole = Put(@, task.Role, Counted(rm, task))]

\* RecordTask, role metrics: the sums, the usage, the average and the rate
updateRoleSums(m, task) ==
    LET rm == m.ByRole[task.Role]
    IN  [m EXCEPT !.ByRole[task.Role] =
            [rm EXCEPT
               !.TotalDuration = @ + task.Duration,
               !.TotalTokens = @ + task.Tokens,
               !.TotalCost = @ + task.Cost,
               !.ModelUsage = Put(@, task.Model, Count(@, task.Model) + 1),
               !.AvgDuration = (rm.TotalDuration + task.Duration)
                                   \div rm.TotalTasks,
               !.SuccessRate = Rate(rm.CompletedTasks, rm.TotalTasks)]]

\* RecordTask, model metrics
updateModel(m, task) ==
    LET old == IF task.Model \in DOMAIN m.ByModel THEN m.ByModel[task.Model]
               ELSE NewModelMetrics(task.Model, task.Provider)
        mm == Counted(old, task)
    IN  [m EXCEPT !.ByModel = Put(@, task.Model,
            [mm EXCEPT
               !.TotalDuration = @ + task.Duration,
               !.TotalTokens = @ + task.Tokens,
               !.TotalCost = @ + task.Cost,
               !.RoleUsage = Put(@, task.Role, Count(@, task.Role) + 1),
               !.AvgDuration = (mm.TotalDuration + task.Duration)
                                   \div mm.TotalTasks,
               !.SuccessRate = Rate(mm.CompletedTasks, mm.TotalTasks)])]

\* RecordTask, provider metrics
updateProvider(m, task) ==
    LET old == IF task.Provider \in DOMAIN m.ByProvider
               THEN m.ByProvider[task.Provider]
               ELSE NewProviderMetrics(task.Provider)
        pm == Counted(old, task)
    IN  [m EXCEPT !.ByProvider = Put(@, task.Provider,
            [pm EXCEPT
               !.TotalCost = @ + task.Cost,
               !.Availability = Rate(pm.CompletedTasks, pm.TotalTasks)])]

\* the number of tasks the history keeps (1000 in metrics.go; the model
\* keeps fewer, so that a run reaches the cap)
MaxTaskHistory == 3

\* a history that keeps the oldest entries
appendHistory_KeepsOldest(m, task) ==
    LET history == Append(m.TaskHistory, task)
    IN  [m EXCEPT !.TaskHistory =
            IF Len(history) > MaxTaskHistory
            THEN SubSeq(history, 1, MaxTaskHistory)
            ELSE history]

\* RecordTask, "Add to history"
appendHistory(m, task) ==
    LET history == Append(m.TaskHistory, task)
    IN  [m EXCEPT !.TaskHistory =
            IF Len(history) > MaxTaskHistory
            THEN SubSeq(history, Len(history) - MaxTaskHistory + 1, Len(history))
            ELSE history]

\* the updates of one RecordTask, in the order of the code
applyTask(m, task) ==
    appendHistory(
        updateProvider(
            updateModel(
                updateRoleSums(updateRoleCounts(m, task), task), task), task),
        task)

\* no document at s.path
NoFile == [exists |-> FALSE]

\* the goroutines that call RecordTask
Writers == {"w1", "w2"}

\* a goroutine that is not in a call
Idle == [pc |-> "idle"]

\* the callers of a new store: nobody is in a call; issued counts the calls
\* of RecordTask
NoCallers ==
    [writer |-> [w \in Writers |-> Idle], reader |-> Idle, issued |-> 0]

\* the bound on the calls of RecordTask
MaxTasks == 5

\* RecordTask: s.mu.Lock() (the maps are never nil here).  The caller numbers
\* its tasks: the ID is the number of the call.
RecordTask(w, task) ==
    /\ callers.writer[w].pc = "idle"
    /\ callers.issued < MaxTasks
    /\ ~mu
    /\ mu' = TRUE
    /\ callers' =
         [callers EXCEPT
            !.issued = @ + 1,
            !.writer[w] = [pc |-> "role",
                           task |-> [task EXCEPT !.ID = ToString(callers.issued + 1)]]]
    /\ UNCHANGED <<council, patterns, metrics, file, taskLog>>

\* RecordTask, metrics.go 178-191
RecordTaskRoleCounts(w) ==
    /\ callers.writer[w].pc = "role"
    /\ metrics' = updateRoleCounts(metrics, callers.writer[w].task)
    /\ callers' = [callers EXCEPT !.writer[w].pc = "roleSums"]
    /\ UNCHANGED <<council, patterns, mu, file, taskLog>>

\* RecordTask, metrics.go 192-199
RecordTaskRoleSums(w) ==
    /\ callers.writer[w].pc = "roleSums"
    /\ metrics' = updateRoleSums(metrics, callers.writer[w].task)
    /\ callers' = [callers EXCEPT !.writer[w].pc = "model"]
    /\ UNCHANGED <<council, patterns, mu, file, taskLog>>

\* RecordTask, metrics.go 201-224
RecordTaskModel(w) ==
    /\ callers.writer[w].pc = "model"
    /\ metrics' = updateModel(metrics, callers.writer[w].task)
    /\ callers' = [callers EXCEPT !.writer[w].pc = "provider"]
    /\ UNCHANGED <<council, patterns, mu, file, taskLog>>

\* RecordTask, metrics.go 226-243
RecordTaskProvider(w) ==
    /\ callers.writer[w].pc = "provider"
    /\ metrics' = updateProvider(metrics, callers.writer[w].task)
    /\ callers' = [callers EXCEPT !.writer[w].pc = "history"]
    /\ UNCHANGED <<council, patterns, mu, file, taskLog>>

\* RecordTask, metrics.go 245-254: the history and s.mu.Unlock().  taskLog
\* (history) is the sequence of all the tasks recorded.
RecordTaskHistory(w) ==
    /\ callers.writer[w].pc = "history"
    /\ metrics' = appendHistory(metrics, callers.writer[w].task)
    /\ taskLog' = Append(taskLog, callers.writer[w].task)
    /\ mu' = FALSE
    /\ callers' = [callers EXCEPT !.writer[w].pc = "save"]
    /\ UNCHANGED <<council, patterns, file>>

\* save(): the document is marshalled under s.mu.RLock()
SaveMarshal(w) ==
    /\ callers.writer[w].pc = "save"
    /\ ~mu
    /\ callers' = [callers EXCEPT !.writer[w] =
                      [pc |-> "write", task |-> @.task, data |-> metrics]]
    /\ UNCHANGED <<council, patterns, metrics, mu, file, taskLog>>

\* save(): os.WriteFile(s.path, data)
SaveWrite(w) ==
    /\ callers.writer[w].pc = "write"
    /\ file' = [exists |-> TRUE, document |-> callers.writer[w].data]
    /\ callers' = [callers EXCEPT !.writer[w] =
                      [pc |-> "relock", task |-> @.task]]
    /\ UNCHANGED <<council, patterns, metrics, mu, taskLog>>

\* RecordTask: s.mu.Lock() after save(), return, and the deferred Unlock
RecordTaskReturn(w) ==
    /\ callers.writer[w].pc = "relock"
    /\ ~mu
    /\ callers' = [callers EXCEPT !.writer[w] = Idle]
    /\ UNCHANGED <<council, patterns, metrics, mu, file, taskLog>>

\* GetRoleMetrics(role) for a role that has an entry: under s.mu.RLock() it
\* returns s.metrics.ByRole[role], the pointer the store itself holds; got is
\* what the pointer leads to when the call returns
GetRoleMetrics(role) ==
    /\ callers.reader.pc = "idle"
    /\ ~mu
    /\ role \in DOMAIN metrics.ByRole
    /\ callers' = [callers EXCEPT !.reader =
                      [pc |-> "holding", role |-> role,
                       got |-> metrics.ByRole[role]]]
    /\ UNCHANGED <<council, patterns, metrics, mu, file, taskLog>>

\* the caller of GetRoleMetrics reads the fields of the *RoleMetrics it got
ReadRoleMetrics ==
    /\ callers.reader.pc = "holding"
    /\ callers' = [callers EXCEPT !.reader =
                      [pc |-> "read", role |-> @.role, got |-> @.got,
                       seen |-> metrics.ByRole[@.role]]]
    /\ UNCHANGED <<council, patterns, metrics, mu, file, taskLog>>

\* GetMetrics(): a deep copy made under s.mu.RLock()
GetMetrics ==
    /\ callers.reader.pc = "idle"
    /\ ~mu
    /\ callers' = [callers EXCEPT !.reader = [pc |-> "copied", seen |-> metrics]]
    /\ UNCHANGED <<council, patterns, metrics, mu, file, taskLog>>

\* a nil *ModelComparison
NoComparison == [nil |-> TRUE]

\* a comparison whose TaskDiff is the sum of the task counts
compareModels_SumsTasks(m, model1, model2) ==
    IF model1 \notin DOMAIN m.ByModel \/ model2 \notin DOMAIN m.ByModel
    THEN NoComparison
    ELSE LET mm1 == m.ByModel[model1]
             mm2 == m.ByModel[model2]
         IN  [nil |-> FALSE, Model1 |-> model1, Model2 |-> model2,
              TaskDiff |-> mm1.TotalTasks + mm2.TotalTasks,
              SuccessDiff |->
                  Ratio(mm1.SuccessRate.num * mm2.SuccessRate.den
                            - mm2.SuccessRate.num * mm1.SuccessRate.den,
                        mm1.SuccessRate.den * mm2.SuccessRate.den),
              DurationDiff |-> mm1.AvgDuration - mm2.AvgDuration,
              CostDiff |-> mm1.TotalCost - mm2.TotalCost]

\* what CompareModels computes on the store m
compareModels(m, model1, model2) ==
    IF model1 \notin DOMAIN m.ByModel \/ model2 \notin DOMAIN m.ByModel
    THEN NoComparison
    ELSE LET mm1 == m.ByModel[model1]
             mm2 == m.ByModel[model2]
         IN  [nil |-> FALSE, Model1 |-> model1, Model2 |-> model2,
              TaskDiff |-> mm1.TotalTasks - mm2.TotalTasks,
              SuccessDiff |->
                  Ratio(mm1.SuccessRate.num * mm2.SuccessRate.den
                            - mm2.SuccessRate.num * mm1.SuccessRate.den,
                        mm1.SuccessRate.den * mm2.SuccessRate.den),
              DurationDiff |-> mm1.AvgDuration - mm2.AvgDuration,
              CostDiff |-> mm1.TotalCost - mm2.TotalCost]

\* CompareModels(model1, model2), under s.mu.RLock()
CompareModels(model1, model2) ==
    /\ callers.reader.pc = "idle"
    /\ ~mu
    /\ callers' = [callers EXCEPT !.reader =
                      [pc |-> "compared", model1 |-> model1, model2 |-> model2,
                       result |-> compareModels(metrics, model1, model2)]]
    /\ UNCHANGED <<council, patterns, metrics, mu, file, taskLog>>

\* the reader is done with what it got
ReaderDone ==
    /\ callers.reader.pc \in {"read", "copied", "compared"}
    /\ callers' = [callers EXCEPT !.reader = Idle]
    /\ UNCHANGED <<council, patterns, metrics, mu, file, taskLog>>

---------------------------------------------------------------------------
(* The state after NewRouter(config), NewFallbackManager(router) and       *)
(* NewMetricsStore(townRoot)                                               *)

Init ==
    /\ config = CouncilConfig
    /\ providerStatus = [p \in DOMAIN config.Providers |-> config.Providers[p].Enabled]
    /\ circuitBreaker = [p \in DOMAIN config.Providers |-> NewCircuitBreaker]
    /\ failureWindow = [p \in {} |-> <<>>]
    /\ now = 0
    /\ sweep = NoSweep
    /\ req = ZeroRequest
    /\ route = NotRouting
    /\ streak = [p \in DOMAIN config.Providers |-> 0]
    /\ hitLog = [p \in DOMAIN config.Providers |-> <<>>]
    /\ last = [call |-> "", provider |-> "", path |-> "", pre |-> "", count |-> 0,
               success |-> FALSE, err |-> NilError]
    /\ chain = NoChain
    /\ ensemble = NoEnsemble
    /\ metrics = EmptyMetrics
    /\ mu = FALSE
    /\ file = NoFile
    /\ callers = NoCallers
    /\ taskLog = <<>>
    /\ locks = NoLocks

---------------------------------------------------------------------------
(* Spec: one provider's breaker under every kind of outcome, the recovery  *)
(* sweep, Reset and the clock.                                             *)

\* the errors a failed request carries
Errors ==
    {NilError, NewError("connection refused"), NewError("429"),
     NewError("rate limit exceeded")}

\* the probe outcomes: no answer, 200, 429, 503
Statuses == {NetworkError, StatusOK, StatusTooManyRequests, 503}

Next ==
    \/ RecordRequestOutcome("anthropic", TRUE, NilError)
    \/ \E e \in Errors : RecordRequestOutcome("anthropic", FALSE, e)
    \/ \E s \in Statuses : CheckHealth("anthropic", s)
    \/ MaybeRecover
    \/ \E s \in Statuses : MaybeRecoverProbe(s)
    \/ MaybeRecoverReopen
    \/ Reset
    \/ Tick

Spec == Init /\ [][Next]_vars

---------------------------------------------------------------------------
(* SpecRoute: the breakers under failures and successes, the sweep, Reset, *)
(* and callers routing through RouteWithFallback.  Outcomes are reported   *)
(* for anthropic; the run may start after five failed requests to xai.     *)
(* A CheckHealth by another caller records through the same recordSuccess  *)
(* and recordFailure as RecordRequestOutcome and is exercised in Spec.     *)

\* The state after NewFallbackManager, or the state five calls
\* RecordRequestOutcome("xai", false, nil) later.
InitTripped ==
    /\ config = CouncilConfig
    /\ \E tripped \in BOOLEAN :
          /\ providerStatus =
               [p \in DOMAIN config.Providers |->
                   config.Providers[p].Enabled /\ ~(tripped /\ p = "xai")]
          /\ circuitBreaker =
               [p \in DOMAIN config.Providers |->
                   IF tripped /\ p = "xai"
                   THEN [NewCircuitBreaker EXCEPT !.State = "open",
                                                  !.FailureCount = Threshold,
                                                  !.OpenedAt = 0]
                   ELSE NewCircuitBreaker]
          /\ streak = [p \in DOMAIN config.Providers |->
                         IF tripped /\ p = "xai" THEN Threshold ELSE 0]
          /\ last = [call |-> IF tripped THEN "RecordRequestOutcome" ELSE "",
                     provider |-> IF tripped THEN "xai" ELSE "",
                     path |-> IF tripped THEN "recordFailure" ELSE "",
                     pre |-> IF tripped THEN "closed" ELSE "",
                     count |-> IF tripped THEN Threshold - 1 ELSE 0,
                     success |-> FALSE, err |-> NilError]
    /\ failureWindow = [p \in {} |-> <<>>]
    /\ now = 0
    /\ sweep = NoSweep
    /\ req = ZeroRequest
    /\ route = NotRouting
    /\ hitLog = [p \in DOMAIN config.Providers |-> <<>>]
    /\ chain = NoChain
    /\ ensemble = NoEnsemble
    /\ metrics = EmptyMetrics
    /\ mu = FALSE
    /\ file = NoFile
    /\ callers = NoCallers
    /\ taskLog = <<>>
    /\ locks = NoLocks

\* the requests callers build
Requests ==
    {[Role |-> "mayor", Task |-> NilTask, PreferredModel |-> m,
      ExcludeProviders |-> <<>>] : m \in {"", "grok"}}

NextRoute ==
    \/ RecordRequestOutcome("anthropic", TRUE, NilError)
    \/ RecordRequestOutcome("anthropic", FALSE, NilError)
    \/ MaybeRecover
    \/ \E s \in {NetworkError, StatusOK} : MaybeRecoverProbe(s)
    \/ MaybeRecoverReopen
    \/ Reset
    \/ \E r \in Requests : NewRequest(r)
    \/ RouteWithFallback
    \/ RouteWithFallbackRoute
    \/ Tick

SpecRoute == InitTripped /\ [][NextRoute]_vars

---------------------------------------------------------------------------
(* SpecDisabled: openai is switched off in the configuration (enabled =    *)
(* false).  Outcomes and health checks are reported for it, the sweep and  *)
(* Reset run, and callers route with and without a preference for one of   *)
(* its models, through RouteWithFallback or through Route.                 *)

DisabledRequests ==
    {[Role |-> "mayor", Task |-> NilTask, PreferredModel |-> m,
      ExcludeProviders |-> <<>>] : m \in {"", "gpt-5.2"}}

NextDisabled ==
    \/ RecordRequestOutcome("openai", TRUE, NilError)
    \/ RecordRequestOutcome("openai", FALSE, NilError)
    \/ \E s \in {NetworkError, StatusOK} : CheckHealth("openai", s)
    \/ MaybeRecover
    \/ \E s \in {NetworkError, StatusOK} : MaybeRecoverProbe(s)
    \/ MaybeRecoverReopen
    \/ Reset
    \/ \E r \in DisabledRequests : NewRequest(r)
    \/ RouteWithFallback
    \/ RouteWithFallbackRoute
    \/ RouterRoute
    \/ Tick

SpecDisabled == Init /\ [][NextDisabled]_vars

---------------------------------------------------------------------------
(* SpecSweep: the goroutine of StartBackgroundRecovery.  Only it calls     *)
(* MaybeRecover; its context can be cancelled at any moment, and a probe   *)
(* made with a cancelled context gets no answer (client.Do returns the     *)
(* error of the context).                                                  *)

NextSweep ==
    \/ StartBackgroundRecovery
    \/ TickerFires
    \/ Cancel
    \/ SweepSelectDone
    \/ SweepSelectTick
    \/ sweep.loop = "call" /\ MaybeRecover
    \/ \E s \in {NetworkError, StatusOK} :
          (sweep.cancelled => s = NetworkError) /\ MaybeRecoverProbe(s)
    \/ MaybeRecoverReopen
    \/ RecordRequestOutcome("anthropic", TRUE, NilError)
    \/ RecordRequestOutcome("anthropic", FALSE, NilError)
    \/ Tick

SpecSweep == InitTripped /\ [][NextSweep]_vars

---------------------------------------------------------------------------
(* SpecLocks: the sweep, a routing caller, a caller that records outcomes  *)
(* or checks health, and an operator calling Reset run their methods at    *)
(* the same time, one lock operation at a time.                            *)

NextLocks ==
    \/ \E g \in Goroutines : \E ops \in Methods(g) : Call(g, ops)
    \/ \E g \in Goroutines : Acquire(g)
    \/ \E g \in Goroutines : Release(g)
    \/ \E g \in Goroutines : ProbeAnswered(g)

SpecLocks == Init /\ [][NextLocks]_vars

---------------------------------------------------------------------------
(* SpecRouter: the Router alone.  Callers build requests and call Route;   *)
(* an operator marks providers up and down.                                *)

\* the task signals of the requests
Tasks ==
    {NilTask,
     [isNil |-> FALSE, FilesAffected |-> 1, LinesChanged |-> 10,
      IsArchitectural |-> FALSE, HasTests |-> FALSE],
     [isNil |-> FALSE, FilesAffected |-> 10, LinesChanged |-> 600,
      IsArchitectural |-> TRUE, HasTests |-> TRUE]}

\* the requests callers build
RouterRequests ==
    {[Role |-> role, Task |-> task, PreferredModel |-> model,
      ExcludeProviders |-> exclude] :
        role \in {"mayor", "polecat", "refinery", "nobody"},
        task \in Tasks,
        model \in {"", "auto", "opus-4.5", "grok", "llama-3"},
        exclude \in {<<>>, <<"anthropic">>, <<"xai">>, <<"unknown">>}}

NextRouter ==
    \/ \E p \in {"anthropic", "openai", "xai", "unknown"}, b \in BOOLEAN :
          MarkProvider(p, b)
    \/ \E r \in RouterRequests : NewRequest(r)
    \/ RouterRoute

SpecRouter == Init /\ [][NextRouter]_vars

---------------------------------------------------------------------------
(* SpecComplexity: the polecat role, routed by complexity, with task       *)
(* signals on and around every threshold of assessComplexity.              *)

\* the task signals: every file count up to MaxFiles, the line counts at and
\* just below each multiple of 50, and every combination of the flags
TaskSignals ==
    {[isNil |-> FALSE, FilesAffected |-> files, LinesChanged |-> lines,
      IsArchitectural |-> architectural, HasTests |-> tests] :
        files \in 0..MaxFiles,
        lines \in {50 * k - d : k \in 0..MaxLineBlocks, d \in {0, 1}} \cap Nat,
        architectural \in BOOLEAN,
        tests \in BOOLEAN}

ComplexityRequests ==
    {[Role |-> "polecat", Task |-> task, PreferredModel |-> "",
      ExcludeProviders |-> <<>>] : task \in TaskSignals \cup {NilTask}}

NextComplexity ==
    \/ \E r \in ComplexityRequests : NewRequest(r)
    \/ RouterRoute

SpecComplexity == Init /\ [][NextComplexity]_vars

---------------------------------------------------------------------------
(* SpecChain: a chain executor is built on one of the configurations, is   *)
(* given an input, and the executor answers each call with a response, a   *)
(* response that has success = false, an error, or an error together with  *)
(* a response.                                                             *)

\* a ChainStep of the configuration
ChainStepConfig(name, model, prompt, transform) ==
    [Name |-> name, Model |-> model, Prompt |-> prompt,
     TransformOutput |-> transform]

\* the chains: draft, review and merge; code and explain; and no step at all
ChainSteps ==
    {<<ChainStepConfig("draft", "sonnet-4.5", "", "trim"),
       ChainStepConfig("review", "gpt-5.2", "Review: {{input}}", "first_line"),
       ChainStepConfig("merge", "opus-4.5", "{{input}} | {{input}}", "")>>,
     <<ChainStepConfig("code", "grok", "", "extract_code"),
       ChainStepConfig("explain", "sonnet-4.5", "Explain.", "upper")>>,
     <<>>}

ChainConfigs ==
    {[Steps |-> steps, StopOnError |-> stop] :
        steps \in ChainSteps, stop \in BOOLEAN}

\* the inputs given to Execute
ChainInputs == {"task", "do {{input}}"}

\* the answers of the executor
ExecutorAnswers ==
    {Returned(ModelResponse(TRUE, " fix\nit ", "", 2)),
     Returned(ModelResponse(TRUE, "done", "", 1)),
     Returned(ModelResponse(TRUE, "see\n'''\ncode\n'''", "", 3)),
     Returned(ModelResponse(FALSE, "partial", "refused", 1)),
     ReturnedError("timeout"),
     ReturnedWithError(ModelResponse(FALSE, "", "cut off", 2), "cut off")}

NextChain ==
    \/ \E cfg \in ChainConfigs : NewChainExecutor(cfg)
    \/ \E input \in ChainInputs : ChainExecute(input)
    \/ \E answer \in ExecutorAnswers : ChainStep(answer)

SpecChain == Init /\ [][NextChain]_vars

---------------------------------------------------------------------------
(* SpecEnsemble: an ensemble of two or three models.  The executor answers *)
(* a participant's call at any time, before or after the deadline, or,     *)
(* for the participants in hung, never.  Goroutines that can take a step   *)
(* keep being scheduled and the clock keeps running.                       *)

EnsembleConfigs ==
    {[Models |-> models, VotingStrategy |-> "majority",
      Threshold |-> Ratio(1, 2), Timeout |-> timeout, MinResponses |-> 0] :
        models \in {<<"opus-4.5", "gpt-5.2", "grok">>, <<"sonnet-4.5", "grok">>},
        timeout \in {0, TickSeconds}}

\* the answers of the executor to a participant
EnsembleAnswers ==
    {Returned(ModelResponse(TRUE, "yes", "", 2)),
     Returned(ModelResponse(FALSE, "", "refused", 1)),
     ReturnedError("context deadline exceeded")}

NextEnsemble ==
    \/ \E cfg \in EnsembleConfigs : NewEnsembleExecutor(cfg)
    \/ \E hung \in SUBSET (1..Len(ensemble.config.Models)) :
          EnsembleExecute("review this", hung)
    \/ \E i \in DOMAIN ensemble.calls, answer \in EnsembleAnswers :
          ParticipantReturns(i, answer)
    \/ CloseChannel
    \/ Receive
    \/ EnsembleCollected
    \/ EnsembleFinish
    \/ DeadlineTick

SpecEnsemble ==
    /\ Init
    /\ [][NextEnsemble]_vars
    /\ WF_vars(EnsembleFinish)
    /\ WF_vars(\E i \in DOMAIN ensemble.calls, answer \in EnsembleAnswers :
                  ParticipantReturns(i, answer))
    /\ WF_vars(CloseChannel)
    /\ WF_vars(Receive)
    /\ WF_vars(EnsembleCollected)
    /\ WF_vars(DeadlineTick)

---------------------------------------------------------------------------
(* SpecVote: the count of the successes, the vote and the threshold, over   *)
(* the responses of two or three participants.  Execute has collected the  *)
(* responses, in the order of the models; EnsembleFinish does the rest.    *)

\* the answers of the executor to a participant: outputs that normalize to
\* "a", to "b" and to "", with and without a confidence, and failures
VoteAnswers ==
    {Returned(Scored(ModelResponse(TRUE, "A", "", 2), 0, 1)),
     Returned(Scored(ModelResponse(TRUE, "A", "", 2), 9, 1)),
     Returned(Scored(ModelResponse(TRUE, "a ", "", 20), 3, 7)),
     Returned(Scored(ModelResponse(TRUE, "B", "", 60), 0, 20)),
     Returned(Scored(ModelResponse(TRUE, "Here is  B", "", 2), 3, 1)),
     Returned(Scored(ModelResponse(TRUE, "Sure,", "", 2), 0, 1)),
     Returned(Scored(ModelResponse(TRUE, " ", "", 2), 9, 1)),
     Returned(ModelResponse(FALSE, "", "refused", 1)),
     ReturnedError("timeout")}

VoteConfigs ==
    {[Models |-> models, VotingStrategy |-> strategy, Threshold |-> threshold,
      Timeout |-> TickSeconds, MinResponses |-> minResponses] :
        models \in {<<"opus-4.5", "gpt-5.2", "grok">>, <<"sonnet-4.5", "grok">>},
        strategy \in {"majority", "consensus", "weighted", "best"},
        threshold \in {Ratio(0, 1), Ratio(66, 100), Ratio(1, 1)},
        minResponses \in {0, 1, 3}}

\* what Execute has collected when participant k, k + 1, ... answered in
\* this order
RECURSIVE CollectedFrom(_, _, _)
CollectedFrom(models, answers, k) ==
    IF k > Len(models) THEN <<>>
    ELSE Delivered(models[k], answers[k]) \o CollectedFrom(models, answers, k + 1)

\* Execute at the end of the collection
InitVote ==
    /\ config = CouncilConfig
    /\ providerStatus = [p \in DOMAIN config.Providers |-> config.Providers[p].Enabled]
    /\ circuitBreaker = [p \in DOMAIN config.Providers |-> NewCircuitBreaker]
    /\ failureWindow = [p \in {} |-> <<>>]
    /\ now = 0
    /\ sweep = NoSweep
    /\ req = ZeroRequest
    /\ route = NotRouting
    /\ streak = [p \in DOMAIN config.Providers |-> 0]
    /\ hitLog = [p \in DOMAIN config.Providers |-> <<>>]
    /\ last = [call |-> "", provider |-> "", path |-> "", pre |-> "", count |-> 0,
               success |-> FALSE, err |-> NilError]
    /\ chain = NoChain
    /\ metrics = EmptyMetrics
    /\ mu = FALSE
    /\ file = NoFile
    /\ callers = NoCallers
    /\ taskLog = <<>>
    /\ locks = NoLocks
    /\ \E cfg \in VoteConfigs :
         \E answers \in [1..Len(cfg.Models) -> VoteAnswers] :
            ensemble =
              [NoEnsemble EXCEPT
                 !.pc = "collected",
                 !.config = cfg,
                 !.prompt = "review this",
                 !.timeout = cfg.Timeout,
                 !.calls = [i \in 1..Len(cfg.Models) |-> "returned"],
                 !.answers = answers,
                 !.closed = TRUE,
                 !.result.Responses = CollectedFrom(cfg.Models, answers, 1)]

NextVote == EnsembleFinish

SpecVote == InitVote /\ [][NextVote]_vars

---------------------------------------------------------------------------
(* SpecMetrics: one goroutine (w1) records up to MaxTasks tasks, one       *)
(* after the other, while another reads the store through GetRoleMetrics,  *)
(* GetMetrics and CompareModels.                                           *)

\* the tasks recorded (the caller sets the ID)
MetricTasks ==
    {TaskMetric("", "polecat", "sonnet-4.5", "anthropic", 2, 10, 3, TRUE),
     TaskMetric("", "polecat", "gpt-5.2", "openai", 5, 20, 1, FALSE),
     TaskMetric("", "mayor", "sonnet-4.5", "anthropic", 1, 5, 2, TRUE)}

\* the models a reader compares
ComparedModels == {"sonnet-4.5", "gpt-5.2"}

NextMetrics ==
    \/ \E w \in {"w1"}, task \in MetricTasks : RecordTask(w, task)
    \/ \E w \in {"w1"} : RecordTaskRoleCounts(w)
    \/ \E w \in {"w1"} : RecordTaskRoleSums(w)
    \/ \E w \in {"w1"} : RecordTaskModel(w)
    \/ \E w \in {"w1"} : RecordTaskProvider(w)
    \/ \E w \in {"w1"} : RecordTaskHistory(w)
    \/ \E w \in {"w1"} : SaveMarshal(w)
    \/ \E w \in {"w1"} : SaveWrite(w)
    \/ \E w \in {"w1"} : RecordTaskReturn(w)
    \/ \E role \in {"polecat", "mayor"} : GetRoleMetrics(role)
    \/ ReadRoleMetrics
    \/ GetMetrics
    \/ \E model1, model2 \in ComparedModels : CompareModels(model1, model2)
    \/ ReaderDone

SpecMetrics == Init /\ [][NextMetrics]_vars

---------------------------------------------------------------------------
(* SpecSave: two goroutines record tasks at the same time.  s.mu orders    *)
(* their updates of the store; their calls of save() run outside of it.    *)

NextSave ==
    \/ \E w \in Writers, task \in MetricTasks : RecordTask(w, task)
    \/ \E w \in Writers : RecordTaskRoleCounts(w)
    \/ \E w \in Writers : RecordTaskRoleSums(w)
    \/ \E w \in Writers : RecordTaskModel(w)
    \/ \E w \in Writers : RecordTaskProvider(w)
    \/ \E w \in Writers : RecordTaskHistory(w)
    \/ \E w \in Writers : SaveMarshal(w)
    \/ \E w \in Writers : SaveWrite(w)
    \/ \E w \in Writers : RecordTaskReturn(w)

SpecSave == Init /\ [][NextSave]_vars

---------------------------------------------------------------------------
(* FairSpec: recovery.  Requests fail only while the provider's breaker is *)
(* closed; every probe and every request made while it is open or          *)
(* half-open succeeds.  The ticker of StartBackgroundRecovery keeps        *)
(* calling MaybeRecover, a call of MaybeRecover runs to its end, and the   *)
(* clock advances.                                                         *)

NextFair ==
    \/ \E p \in {"anthropic", "xai"} : RecordRequestOutcome(p, TRUE, NilError)
    \/ /\ StateOf("anthropic") = "closed"
       /\ RecordRequestOutcome("anthropic", FALSE, NilError)
    \/ MaybeRecover
    \/ MaybeRecoverProbe(StatusOK)
    \/ Tick

FairSpec ==
    /\ InitTripped
    /\ [][NextFair]_vars
    /\ WF_vars(MaybeRecover)
    /\ WF_vars(MaybeRecoverProbe(StatusOK))
    /\ WF_vars(Tick)

---------------------------------------------------------------------------
(* Properties *)

Providers == DOMAIN CouncilConfig.Providers

\* sub occurs in s
Substring(s, sub) ==
    \E i \in 1..(Len(s) - Len(sub) + 1) : SubSeq(s, i, i + Len(sub) - 1) = sub

\* the last step recorded `path` for provider p and found its breaker in `pre`
Recorded(path, p, pre) ==
    last.path = path /\ last.provider = p /\ last.pre = pre

\* C1 (SpecRoute): a result that RouteWithFallback returns never names a
\* provider whose breaker was open when the call collected the open breakers.
C1_NeverRoutesToOpen ==
    route.pc = "done" /\ route.result.ok
        => route.result.Provider \notin route.openAtCall

\* C1: a call made while the anthropic breaker was open, and is still open,
\* has returned a fallback model of another provider.
C1_Witness ==
    /\ route.pc = "done" /\ route.result.ok
    /\ route.openAtCall = {"anthropic"}
    /\ circuitBreaker["anthropic"].State = "open"
    /\ route.result.Provider = "xai"
    /\ route.result.Fallback

\* C2: a closed breaker never holds Threshold failures in a row; a failure
\* recorded on a closed breaker opens it exactly when it is the Threshold-th
\* since the last success, and then OpenedAt is the time of that failure and
\* the Router is told the provider is down.
C2_ThresholdOpens ==
    \A p \in Providers :
        LET cb == circuitBreaker[p]
        IN  /\ cb.State = "closed" => streak[p] < cb.Threshold
            /\ Recorded("recordFailure", p, "closed") =>
                  /\ cb.State = "open" <=> streak[p] = cb.Threshold
                  /\ cb.State \in {"closed", "open"}
                  /\ cb.State = "open" => cb.OpenedAt = now /\ ~providerStatus[p]

\* C2: the fifth failure in a row has just opened a closed breaker.
C2_Witness ==
    \E p \in Providers :
        /\ Recorded("recordFailure", p, "closed")
        /\ circuitBreaker[p].State = "open"
        /\ streak[p] = Threshold
        /\ circuitBreaker[p].OpenedAt = now

\* C3: a success recorded on a closed breaker leaves it closed with
\* FailureCount 0; the count of a closed breaker is the number of failures
\* since the last success, so a failure opens the breaker only as the
\* Threshold-th failure after the last success.
C3_SuccessResets ==
    \A p \in Providers :
        LET cb == circuitBreaker[p]
        IN  /\ Recorded("recordSuccess", p, "closed") =>
                  cb.State = "closed" /\ cb.FailureCount = 0
            /\ cb.State = "closed" => cb.FailureCount = streak[p]
            /\ Recorded("recordFailure", p, "closed") /\ cb.State = "open" =>
                  streak[p] >= cb.Threshold

\* C3: a success has just interrupted a run of Threshold - 1 failures.
C3_Witness ==
    \E p \in Providers :
        /\ Recorded("recordSuccess", p, "closed")
        /\ last.count = Threshold - 1
        /\ circuitBreaker[p].FailureCount = 0
        /\ circuitBreaker[p].State = "closed"

\* C4 as claimed: a breaker leaves the open state only when ResetTimeout has
\* elapsed since OpenedAt.
C4_OpenUntilTimeout ==
    [][\A p \in Providers :
          circuitBreaker[p].State = "open" /\ circuitBreaker'[p].State # "open"
             => now - circuitBreaker[p].OpenedAt >= ResetTimeout]_vars

\* C4 as amended: a breaker leaves the open state only when ResetTimeout has
\* elapsed since OpenedAt, or by a call of Reset.
C4_OpenUntilTimeoutOrReset ==
    [][\A p \in Providers :
          circuitBreaker[p].State = "open" /\ circuitBreaker'[p].State # "open"
             => \/ now - circuitBreaker[p].OpenedAt >= ResetTimeout
                \/ last'.call = "Reset"]_vars

\* C4: the sweep has just promoted a breaker whose ResetTimeout had elapsed.
C4_Witness ==
    /\ last.path = "promote"
    /\ \E p \in Providers :
          /\ circuitBreaker[p].State = "half-open"
          /\ sweep.toTest # <<>> /\ contains(sweep.toTest, p)
          /\ now - circuitBreaker[p].OpenedAt >= ResetTimeout

\* C5: a success recorded on a half-open breaker, by a probe or by a live
\* request, closes it with FailureCount 0 and marks the provider available
\* in the Router.
C5_HalfOpenSuccessCloses ==
    \A p \in Providers :
        Recorded("recordSuccess", p, "half-open") =>
            /\ circuitBreaker[p].State = "closed"
            /\ circuitBreaker[p].FailureCount = 0
            /\ providerStatus[p]
            /\ isModelAvailable(providerStatus, CouncilConfig.Providers[p].Models[1], <<>>)

\* C5: a live request's success has just closed a half-open breaker.
C5_Witness ==
    \E p \in Providers :
        /\ Recorded("recordSuccess", p, "half-open")
        /\ last.call = "RecordRequestOutcome"
        /\ circuitBreaker[p].State = "closed"

RecentHits(p) ==
    Cardinality({i \in 1..Len(hitLog[p]) : now - hitLog[p][i] < RateLimitWindow})

\* C7: a rate-limit hit recorded on a closed breaker opens it exactly when at
\* least RateLimitHits hits (this one included) are less than a minute old;
\* the window then holds those hits and no older one.
C7_RateLimitOpens ==
    \A p \in Providers :
        /\ Recorded("recordRateLimit", p, "closed") =>
              /\ circuitBreaker[p].State = "open" <=> RecentHits(p) >= RateLimitHits
              /\ circuitBreaker[p].State = "open" =>
                    circuitBreaker[p].OpenedAt = now /\ ~providerStatus[p]
        /\ last.path = "recordRateLimit" /\ last.provider = p =>
              Len(Window(p)) = RecentHits(p)

\* C7: the fifth hit within a minute has just opened a closed breaker.
C7_Witness ==
    \E p \in Providers :
        /\ Recorded("recordRateLimit", p, "closed")
        /\ circuitBreaker[p].State = "open"
        /\ RecentHits(p) = RateLimitHits

\* the text of err indicates rate limiting
IndicatesRateLimit(err) ==
    /\ ~err.isNil
    /\ \/ Substring(err.text, "rate limit")
       \/ Substring(err.text, "429")
       \/ Substring(err.text, "too many requests")

\* C8: RecordRequestOutcome takes the success path for success = true, the
\* rate-limit path (a hit added to the window, FailureCount unchanged) for a
\* failure whose error text contains "rate limit", "429" or "too many
\* requests", and the failure path (FailureCount + 1) for every other failure.
C8_Classification ==
    last.call = "RecordRequestOutcome" =>
        LET p == last.provider
        IN  IF last.success THEN last.path = "recordSuccess"
            ELSE IF IndicatesRateLimit(last.err)
                 THEN /\ circuitBreaker[p].FailureCount = last.count
                      /\ Window(p) # <<>>
                      /\ Window(p)[Len(Window(p))] = now
                 ELSE circuitBreaker[p].FailureCount = last.count + 1

\* C9 (FairSpec): a configured provider whose breaker is open, with time left
\* on the clock for ResetTimeout to pass, is eventually closed and available
\* in the Router.
C9_RecoveryLive ==
    \A p \in Providers :
        (/\ circuitBreaker[p].State = "open"
         /\ circuitBreaker[p].OpenedAt + ResetTimeout + TickSeconds <= MaxTime)
            ~> (circuitBreaker[p].State = "closed" /\ providerStatus[p])

\* C10 (SpecRouter): right after Route returns for a request with a preferred
\* model other than "auto": if the model's provider is neither excluded nor
\* marked down the result is that model with Fallback = false; otherwise a
\* result, if there is one, is a model the role-based selection yields for the
\* request without the preference, with Fallback = true and a reason.
C10_PreferredModel ==
    LET preferred == req.PreferredModel
        provider == ModelProvider(preferred)
        excluded == \E i \in DOMAIN req.ExcludeProviders :
                        req.ExcludeProviders[i] = provider
        down == provider \in DOMAIN providerStatus /\ ~providerStatus[provider]
        result == route.result
    IN  last.path = "route" /\ route.pc = "done" /\ preferred \notin {"", "auto"} =>
            IF ~excluded /\ ~down
            THEN result.ok /\ result.Model = preferred /\ ~result.Fallback
            ELSE result.ok =>
                    /\ result.Fallback
                    /\ result.FallbackReason # ""
                    /\ \E plain \in Route(config, providerStatus,
                                          [req EXCEPT !.PreferredModel = ""]) :
                           plain.ok /\ plain.Model = result.Model

\* C10: Route has just returned a fallback for a preferred model whose provider
\* is excluded or down.
C10_Witness ==
    /\ last.path = "route" /\ route.pc = "done"
    /\ req.PreferredModel = "grok"
    /\ contains(req.ExcludeProviders, "xai")
    /\ route.result.ok /\ route.result.Fallback
    /\ route.result.Model # "grok"

\* Route has just returned for the request in req
Routed == last.path = "route" /\ route.pc = "done"

\* the request excludes the provider
Excluded(provider) ==
    \E i \in DOMAIN req.ExcludeProviders : req.ExcludeProviders[i] = provider

\* the Router has the provider marked down
MarkedDown(provider) ==
    provider \in DOMAIN providerStatus /\ ~providerStatus[provider]

\* the model's provider is neither excluded nor marked down
Usable(model) ==
    ~Excluded(ModelProvider(model)) /\ ~MarkedDown(ModelProvider(model))

\* the request names a preferred model that Route returns at once
OverrideTaken ==
    req.PreferredModel \notin {"", "auto"} /\ Usable(req.PreferredModel)

\* the role's flat configured model, as the configuration states it
FlatModel(role) ==
    IF role \in DOMAIN config.Roles /\ config.Roles[role].Model # ""
    THEN config.Roles[role].Model
    ELSE config.Defaults.Model

\* the role's fallback list, the default list if the role has none
FallbackList(role) ==
    IF role \in DOMAIN config.Roles /\ config.Roles[role].Fallback # <<>>
    THEN config.Roles[role].Fallback
    ELSE config.Defaults.Fallback

\* the role has complexityRouting = false (or no configuration of its own)
FlatRole(role) ==
    role \in DOMAIN config.Roles => ~config.Roles[role].ComplexityRouting

\* the primary model of the request: the tier's model for a role routed by
\* complexity, the flat model otherwise
Primary ==
    IF SupportsComplexityRouting(config, req.Role)
    THEN GetModelForComplexity(config, req.Role, assessComplexity(req.Task))
    ELSE FlatModel(req.Role)

\* C11 (SpecRouter): for a role with complexityRouting = false whose flat
\* model is usable, a request without a usable override is answered with the
\* flat model, and the same request with any other task signal, or none, is
\* answered with that model too.
C11_FlatRoleIgnoresTask ==
    Routed /\ FlatRole(req.Role) /\ ~OverrideTaken /\ Usable(FlatModel(req.Role)) =>
        /\ route.result.ok
        /\ route.result.Model = FlatModel(req.Role)
        /\ route.result.Provider = ModelProvider(FlatModel(req.Role))
        /\ \A task \in Tasks :
              \A other \in Route(config, providerStatus, [req EXCEPT !.Task = task]) :
                  other.ok /\ other.Model = route.result.Model

\* C11: a role with complexityRouting = false that has complexity tiers
\* configured was routed with a high-complexity task and got its flat model.
C11_Witness ==
    /\ Routed
    /\ req.Role = "refinery" /\ req.PreferredModel = ""
    /\ ~req.Task.isNil /\ req.Task.IsArchitectural
    /\ route.result.Complexity = ComplexityHigh
    /\ route.result.Model = "opus-4.5"
    /\ ~route.result.Fallback

\* C13 (SpecRouter): when the primary model is unusable, the result is the
\* first usable entry of the fallback list, with Fallback = true and a reason
\* that is not the emergency one; so no later entry, and no emergency
\* selection, while an entry is usable.
C13_FirstUsableFallback ==
    Routed /\ ~OverrideTaken /\ ~Usable(Primary) =>
        LET list == FallbackList(req.Role)
        IN  \A i \in 1..Len(list) :
                Usable(list[i]) /\ (\A j \in 1..(i - 1) : ~Usable(list[j])) =>
                    /\ route.result.ok
                    /\ route.result.Model = list[i]
                    /\ route.result.Provider = ModelProvider(list[i])
                    /\ route.result.Fallback
                    /\ route.result.FallbackReason # ""
                    /\ ~Substring(route.result.FallbackReason, "emergency")

\* C13: the primary was unusable, both fallback entries were usable, and the
\* first was returned.
C13_Witness ==
    /\ Routed
    /\ req.Role = "polecat" /\ req.PreferredModel = ""
    /\ ~Usable(Primary)
    /\ Usable("grok") /\ Usable("gpt-5.2")
    /\ route.result.Model = "grok"
    /\ route.result.FallbackReason = "Primary model " \o Primary \o " unavailable"

\* the primary model and every fallback entry are unusable
Exhausted ==
    /\ ~OverrideTaken
    /\ ~Usable(Primary)
    /\ \A i \in 1..Len(FallbackList(req.Role)) : ~Usable(FallbackList(req.Role)[i])

\* the configured providers that are enabled, not excluded, and advertise a
\* model
Eligible ==
    {p \in DOMAIN config.Providers :
        /\ p \in DOMAIN providerStatus /\ providerStatus[p]
        /\ ~Excluded(p)
        /\ config.Providers[p].Models # <<>>}

\* C14 (SpecRouter): with the primary and all fallbacks unusable, Route
\* returns the first advertised model of an enabled, non-excluded provider
\* with Fallback = true and the emergency reason if there is such a provider,
\* and otherwise fails with the no-available-models error that names the role.
C14_Exhaustion ==
    Routed /\ Exhausted =>
        IF Eligible # {}
        THEN /\ route.result.ok
             /\ route.result.Provider \in Eligible
             /\ route.result.Model = config.Providers[route.result.Provider].Models[1]
             /\ route.result.Fallback
             /\ Substring(route.result.FallbackReason, "emergency fallback")
        ELSE /\ ~route.result.ok
             /\ route.result.Error = "no available models for role " \o req.Role

\* C14: with anthropic and xai unusable, the mayor was given the first model
\* of openai as an emergency fallback.
C14_Witness ==
    /\ Routed /\ Exhausted
    /\ req.Role = "mayor"
    /\ route.result.ok
    /\ route.result.Provider = "openai"
    /\ route.result.Model = "gpt-5.2"
    /\ route.result.Fallback

\* C15 (SpecRouter): the configuration, the provider statuses and the request
\* determine the model and the provider that Route returns.
C15_Deterministic ==
    Routed =>
        \A a, b \in Route(config, providerStatus, req) :
            a.Model = b.Model /\ a.Provider = b.Provider

\* task signal b has at least the files and lines of a, and every flag of a
AtLeast(b, a) ==
    /\ b.FilesAffected >= a.FilesAffected
    /\ b.LinesChanged >= a.LinesChanged
    /\ a.IsArchitectural => b.IsArchitectural
    /\ a.HasTests => b.HasTests

\* C12 (SpecComplexity): the tier Route computed for the task signal of the
\* request is not above the tier of any task signal that has at least its
\* files and lines and every flag it has (low < medium < high).
C12_Monotonic ==
    Routed /\ ~req.Task.isNil =>
        \A bigger \in TaskSignals :
            AtLeast(bigger, req.Task) =>
                assessComplexity(bigger) >= route.result.Complexity

\* C12: a task of five files and two hundred lines was classified medium and
\* routed to the medium model, with low and high tasks below and above it.
C12_Witness ==
    /\ Routed /\ ~req.Task.isNil
    /\ req.Task.FilesAffected = 5 /\ req.Task.LinesChanged = 200
    /\ ~req.Task.IsArchitectural /\ ~req.Task.HasTests
    /\ route.result.Complexity = ComplexityMedium
    /\ route.result.Model = "sonnet-4.5"
    /\ \E a, b \in TaskSignals :
          /\ AtLeast(req.Task, a) /\ assessComplexity(a) = ComplexityLow
          /\ AtLeast(b, req.Task) /\ assessComplexity(b) = ComplexityHigh

\* the executor answered the call with a response that has success = true
CallSucceeded(call) ==
    call.answer.err.isNil /\ call.answer.response.Success

\* the template with every {{input}} replaced by the input, for the templates
\* of ChainSteps
Filled(template, input) ==
    CASE template = "" -> input
      [] template = "Review: {{input}}" -> "Review: " \o input
      [] template = "{{input}} | {{input}}" -> input \o " | " \o input
      [] template = "Explain." -> "Explain."

\* C16 (SpecChain): the k-th call of the executor is for the k-th configured
\* step, one call per step executed; the input of the first step is the
\* initial input, the input of a step that follows a succeeded step is that
\* step's transformed output; and the prompt of a call is the step's template
\* with every {{input}} replaced by the step's input, or the input itself for
\* an empty template.
C16_StepsInOrder ==
    chain.pc \in {"loop", "done"} =>
        LET steps == chain.config.Steps
            calls == chain.calls
            results == chain.result.Steps
        IN  /\ Len(calls) = chain.i
            /\ Len(calls) <= Len(steps)
            /\ Len(results) = Len(calls)
            /\ \A k \in 1..Len(calls) :
                  /\ calls[k].Model = steps[k].Model
                  /\ results[k].Name = steps[k].Name
                  /\ calls[k].Prompt = Filled(steps[k].Prompt, results[k].Input)
                  /\ k = 1 => results[k].Input = chain.initialInput
                  /\ k > 1 /\ CallSucceeded(calls[k - 1]) =>
                        results[k].Input =
                            applyTransform(calls[k - 1].answer.response.Output,
                                           steps[k - 1].TransformOutput)

\* C16: a chain of three steps has run, every step succeeded, and the third
\* call's prompt holds the first line of the second step's output twice.
C16_Witness ==
    /\ chain.pc = "done"
    /\ Len(chain.calls) = 3
    /\ \A k \in 1..3 : CallSucceeded(chain.calls[k])
    /\ chain.calls[1].Prompt = chain.initialInput
    /\ chain.calls[2].Prompt = "Review: fix\nit"
    /\ chain.calls[2].answer.response.Output = "see\n'''\ncode\n'''"
    /\ chain.calls[3].Prompt = "see | see"

\* C17 (SpecChain): with stopOnError set, no call follows a call that failed
\* (an error, or a response with success = false), and a chain that has
\* returned after a failed call has success = false and an error that names
\* the failed step by position and name.
C17_StopsAtFirstFailure ==
    chain.config.StopOnError =>
        /\ \A k \in 1..(Len(chain.calls) - 1) : CallSucceeded(chain.calls[k])
        /\ chain.pc = "done" =>
              \A k \in 1..Len(chain.calls) :
                  ~CallSucceeded(chain.calls[k]) =>
                      /\ ~chain.result.Success
                      /\ Substring(chain.result.Error,
                                   "step " \o ToString(k) \o " ("
                                   \o chain.config.Steps[k].Name \o ")")

\* C18 (SpecChain): with stopOnError unset, the step that follows a failed
\* step gets the input the failed step got, and a chain that has returned has
\* called every step and has success = false if a step failed.
C18_ContinuesWithSameInput ==
    ~chain.config.StopOnError /\ chain.pc \in {"loop", "done"} =>
        /\ \A k \in 1..(Len(chain.calls) - 1) :
              ~CallSucceeded(chain.calls[k]) =>
                  chain.result.Steps[k + 1].Input = chain.result.Steps[k].Input
        /\ chain.pc = "done" =>
              /\ Len(chain.calls) = Len(chain.config.Steps)
              /\ (\E k \in 1..Len(chain.calls) : ~CallSucceeded(chain.calls[k]))
                    => ~chain.result.Success

\* the positions in result.Responses of the responses for the model
ResponsesOf(model) ==
    {k \in 1..Len(ensemble.result.Responses) :
        ensemble.result.Responses[k].Model = model}

\* C19 (SpecEnsemble): when the collection has ended, result.Responses holds
\* exactly one response for every configured model, whether the participant
\* answered before or after the deadline: the executor's response, or, for a
\* call that returned an error, a failure that carries the error.
C19_OneResponsePerModel ==
    ensemble.pc = "collected" =>
        /\ Len(ensemble.result.Responses) = Len(ensemble.config.Models)
        /\ \A i \in 1..Len(ensemble.config.Models) :
              /\ Cardinality(ResponsesOf(ensemble.config.Models[i])) = 1
              /\ \A k \in ResponsesOf(ensemble.config.Models[i]) :
                    LET response == ensemble.result.Responses[k]
                        answer == ensemble.answers[i]
                    IN  IF answer.err.isNil
                        THEN /\ response.Success = answer.response.Success
                             /\ response.Output = answer.response.Output
                        ELSE /\ ~response.Success
                             /\ response.Error = answer.err.text

\* C19: the collection of three participants has ended; one answered after
\* the deadline, one call returned an error, one succeeded.
C19_Witness ==
    /\ ensemble.pc = "collected"
    /\ Len(ensemble.config.Models) = 3
    /\ ensemble.late # {}
    /\ \E i \in 1..3 : ~ensemble.answers[i].err.isNil
    /\ \E k \in 1..3 : ensemble.result.Responses[k].Success
    /\ Len(ensemble.result.Responses) = 3

\* C20 (SpecEnsemble): once the shared deadline has passed, Execute leaves the
\* collection loop, whether or not a participant's call is still in flight.
C20_ReturnsAfterDeadline ==
    (ensemble.pc = "collecting" /\ DeadlineFired) ~> (ensemble.pc = "collected")

\* the number of responses with success = true that Execute collected
Achieved == Cardinality({k \in 1..Len(ensemble.result.Responses) :
                            ensemble.result.Responses[k].Success})

\* the minimum of successful responses: the configured value, or
\* floor(n/2) + 1 for n configured models when unset
Required ==
    IF ensemble.config.MinResponses # 0 THEN ensemble.config.MinResponses
    ELSE (Len(ensemble.config.Models) \div 2) + 1

\* the participants that answered with success = true before the deadline
OnTime ==
    {i \in DOMAIN ensemble.answers :
        /\ i \notin ensemble.late
        /\ ensemble.answers[i].err.isNil
        /\ ensemble.answers[i].response.Success}

\* the result carries this vote
Carries(v) ==
    /\ ensemble.result.Winner = v.winner.Model
    /\ ensemble.result.WinnerOutput = v.winner.Output
    /\ Same(ensemble.result.Agreement, v.agreement)

\* the result's winner is a response of this group, with this agreement
WinnerFrom(group, agreement) ==
    /\ \E k \in 1..Len(group) :
          /\ ensemble.result.Winner = group[k].Model
          /\ ensemble.result.WinnerOutput = group[k].Output
    /\ Same(ensemble.result.Agreement, agreement)

\* C21 (SpecEnsemble): when Execute has returned, the successes it compared
\* with minResponses are those of the participants that answered before the
\* deadline, and the winner is not a participant that answered after it.
C21_LateDropped ==
    ensemble.pc = "done" =>
        /\ ensemble.successfulResponses = Cardinality(OnTime)
        /\ \A i \in ensemble.late :
              ensemble.result.Winner # ensemble.config.Models[i]

\* C22 (SpecVote): when Execute has returned, then if the successes are fewer
\* than the minimum the result has success = false, the error
\* "insufficient responses: got <achieved>, need <required>", no winner, and
\* the error returned is nil; otherwise the result carries a vote over the
\* responses.
C22_Insufficient ==
    ensemble.pc = "done" =>
        /\ ensemble.returned /\ ensemble.err.isNil
        /\ IF Achieved < Required
           THEN /\ ~ensemble.result.Success
                /\ ensemble.result.Error =
                      "insufficient responses: got " \o ToString(Achieved)
                      \o ", need " \o ToString(Required)
                /\ ensemble.result.Winner = ""
                /\ ensemble.result.WinnerOutput = ""
                /\ ensemble.result.Agreement.num = 0
           ELSE \E v \in vote(ensemble.config.VotingStrategy,
                              ensemble.result.Responses) : Carries(v)

\* C22: three models, no configured minimum, one success: the result is the
\* structured failure that names 1 achieved and 2 required.
C22_Witness ==
    /\ ensemble.pc = "done"
    /\ Len(ensemble.config.Models) = 3
    /\ ensemble.config.MinResponses = 0
    /\ Achieved = 1
    /\ ~ensemble.result.Success
    /\ ensemble.result.Error = "insufficient responses: got 1, need 2"
    /\ ensemble.result.Winner = ""

\* C23 (SpecVote): when Execute has returned and the successes reached the
\* minimum, the result has success = true exactly when the agreement is at
\* least the threshold, and in both cases Winner, WinnerOutput and Agreement
\* are those of a vote over the responses.
C23_Threshold ==
    ensemble.pc = "done" /\ Achieved >= Required =>
        /\ ensemble.result.Success <=>
              ensemble.result.Agreement.num * ensemble.config.Threshold.den
                  >= ensemble.config.Threshold.num * ensemble.result.Agreement.den
        /\ \E v \in vote(ensemble.config.VotingStrategy,
                         ensemble.result.Responses) : Carries(v)

\* C23: a majority vote of "a", "a", "b" under a threshold of 1: the result
\* has success = false and carries the winner and the agreement 2/3.
C23_Witness ==
    /\ ensemble.pc = "done"
    /\ ensemble.config.VotingStrategy = "majority"
    /\ ensemble.config.Threshold = Ratio(1, 1)
    /\ Achieved = 3
    /\ ~ensemble.result.Success
    /\ ensemble.result.Winner = "opus-4.5"
    /\ ensemble.result.WinnerOutput = "A"
    /\ Same(ensemble.result.Agreement, Ratio(2, 3))
    /\ ensemble.result.Error = "agreement 0.67 below threshold 1.00"

\* C24 (SpecVote): after a majority vote the winner is a response of a
\* largest group of successful responses with the same normalized output,
\* and the agreement is the size of that group over the number of successful
\* responses.
C24_MajorityWinner ==
    ensemble.pc = "done" /\ Achieved >= Required
            /\ ensemble.config.VotingStrategy = "majority" =>
        LET responses == ensemble.result.Responses
            keys == Keys(responses)
        IN  \E key \in keys :
               /\ \A other \in keys :
                     Len(Group(responses, key)) >= Len(Group(responses, other))
               /\ WinnerFrom(Group(responses, key),
                             Ratio(Len(Group(responses, key)), Achieved))

\* C25 (SpecVote): after a consensus vote the agreement is 1 exactly when
\* all successful responses have the same normalized output, the winner then
\* being one of them; when two of them differ, winner and agreement are those
\* of a majority vote over the same responses.
C25_Consensus ==
    ensemble.pc = "done" /\ Achieved >= Required
            /\ ensemble.config.VotingStrategy = "consensus" =>
        LET responses == ensemble.result.Responses
            unanimous == Cardinality(Keys(responses)) = 1
        IN  /\ unanimous <=> Same(ensemble.result.Agreement, Ratio(1, 1))
            /\ unanimous =>
                  WinnerFrom(Successful(responses), Ratio(1, 1))
            /\ ~unanimous =>
                  \E v \in voteMajority(responses) : Carries(v)

\* C26 (SpecVote): after a weighted vote the winner is a response of a group
\* whose weight (the sum of the confidences of its responses, 0.5 for a
\* response without one) is the highest, and the agreement is that weight
\* over the weight of all successful responses.
C26_Weighted ==
    ensemble.pc = "done" /\ Achieved >= Required
            /\ ensemble.config.VotingStrategy = "weighted" =>
        LET responses == ensemble.result.Responses
            keys == Keys(responses)
        IN  \E key \in keys :
               /\ \A other \in keys :
                     SumWeights(Group(responses, key))
                         >= SumWeights(Group(responses, other))
               /\ WinnerFrom(Group(responses, key),
                             Ratio(SumWeights(Group(responses, key)),
                                   SumWeights(Successful(responses))))

\* C27 (SpecVote): after a majority, consensus or weighted vote, the vote
\* over every permutation of the responses has the winner (model and output)
\* and the agreement of the result.
C27_OrderInvariant ==
    ensemble.pc = "done" /\ Achieved >= Required
            /\ ensemble.config.VotingStrategy
                  \in {"majority", "consensus", "weighted"} =>
        LET responses == ensemble.result.Responses
        IN  \A perm \in Permutations(1..Len(responses)) :
               \A v \in vote(ensemble.config.VotingStrategy,
                             [k \in 1..Len(responses) |-> responses[perm[k]]]) :
                  Carries(v)

\* the last n entries of a sequence, all of them if there are fewer
LastN(s, n) == IF Len(s) <= n THEN s ELSE SubSeq(s, Len(s) - n + 1, Len(s))

\* the store obtained from an empty store by recording the tasks in order
RECURSIVE Replay(_)
Replay(tasks) ==
    IF tasks = <<>> THEN EmptyMetrics
    ELSE applyTask(Replay(SubSeq(tasks, 1, Len(tasks) - 1)), tasks[Len(tasks)])

\* the task, success and failure counts and the summed cost of an aggregate
Totals(agg) ==
    <<agg.TotalTasks, agg.CompletedTasks, agg.FailedTasks, agg.TotalCost>>

\* the role, model and provider aggregates of two stores have the same task,
\* success and failure counts and the same sums of duration, tokens and cost
SameAggregates(a, b) ==
    /\ DOMAIN a.ByRole = DOMAIN b.ByRole
    /\ DOMAIN a.ByModel = DOMAIN b.ByModel
    /\ DOMAIN a.ByProvider = DOMAIN b.ByProvider
    /\ \A r \in DOMAIN a.ByRole \cap DOMAIN b.ByRole :
          /\ Totals(a.ByRole[r]) = Totals(b.ByRole[r])
          /\ a.ByRole[r].TotalDuration = b.ByRole[r].TotalDuration
          /\ a.ByRole[r].TotalTokens = b.ByRole[r].TotalTokens
    /\ \A m \in DOMAIN a.ByModel \cap DOMAIN b.ByModel :
          /\ Totals(a.ByModel[m]) = Totals(b.ByModel[m])
          /\ a.ByModel[m].TotalDuration = b.ByModel[m].TotalDuration
          /\ a.ByModel[m].TotalTokens = b.ByModel[m].TotalTokens
    /\ \A p \in DOMAIN a.ByProvider \cap DOMAIN b.ByProvider :
          Totals(a.ByProvider[p]) = Totals(b.ByProvider[p])

\* the task of the RecordTask that holds the lock, if there is one
InFlight ==
    LET holders == {w \in Writers : callers.writer[w].pc \in
                       {"role", "roleSums", "model", "provider", "history"}}
    IN  IF holders = {} THEN <<>>
        ELSE <<callers.writer[CHOOSE w \in holders : TRUE].task>>

\* C28 (SpecMetrics): the task history never holds more than MaxTaskHistory
\* entries, and it is the sequence of the most recently recorded tasks, in
\* the order of recording.
C28_HistoryCapped ==
    /\ Len(metrics.TaskHistory) <= MaxTaskHistory
    /\ metrics.TaskHistory = LastN(taskLog, MaxTaskHistory)

\* C28: two tasks more than the cap have been recorded and RecordTask has
\* returned; the history is full and starts with the third task recorded.
C28_Witness ==
    /\ Len(taskLog) = MaxTaskHistory + 2
    /\ \A w \in Writers : callers.writer[w].pc = "idle"
    /\ Len(metrics.TaskHistory) = MaxTaskHistory
    /\ metrics.TaskHistory[1] = taskLog[3]
    /\ metrics.TaskHistory[1].ID = "3"

\* C29 (SpecMetrics): whenever no RecordTask holds the lock, the role, model
\* and provider aggregates have the counts and sums of the store obtained by
\* replaying the task history that the store holds.
C29_AggregatesReplay ==
    ~mu => SameAggregates(metrics, Replay(metrics.TaskHistory))

\* C30 (SpecMetrics): what a reader has read (the fields of the role metrics
\* it got from GetRoleMetrics, or the copy it got from GetMetrics) is the
\* state of the store after some number of recorded tasks, each of them with
\* all of its changes or none.
C30_NoTornRead ==
    /\ callers.reader.pc = "read" =>
          \E k \in 0..Len(taskLog \o InFlight) :
             LET m == Replay(SubSeq(taskLog \o InFlight, 1, k))
             IN  /\ callers.reader.role \in DOMAIN m.ByRole
                 /\ callers.reader.seen = m.ByRole[callers.reader.role]
    /\ callers.reader.pc = "copied" =>
          \E k \in 0..Len(taskLog) :
             callers.reader.seen = Replay(SubSeq(taskLog, 1, k))

\* C31 (SpecMetrics): what an accessor returned stays as it was when the call
\* returned: the role metrics a reader holds from GetRoleMetrics, and what it
\* reads in them later, are the role metrics of the moment of the return,
\* whatever RecordTask has done to the store since.
C31_IndependentCopies ==
    /\ callers.reader.pc = "holding" =>
          metrics.ByRole[callers.reader.role] = callers.reader.got
    /\ callers.reader.pc = "read" => callers.reader.seen = callers.reader.got

\* C32 (SpecSave): once every RecordTask that was called has returned, the
\* persisted document is the store in memory.
C32_PersistedIsCurrent ==
    (/\ \A w \in Writers : callers.writer[w].pc = "idle"
     /\ callers.issued > 0)
        => file.exists /\ file.document = metrics

\* RecordTask has recorded a task of the model
HasRecordedTask(model) == \E k \in 1..Len(taskLog) : taskLog[k].Model = model

\* C33 (SpecMetrics): a call CompareModels(a, b) returns nil exactly when a
\* or b has no recorded task, and exactly when CompareModels(b, a) on the
\* same store returns nil; otherwise its TaskDiff is the opposite of the
\* TaskDiff of CompareModels(b, a).
C33_Antisymmetric ==
    [][callers.reader.pc = "idle" /\ callers'.reader.pc = "compared" =>
          LET call == callers'.reader
              reverse == compareModels(metrics, call.model2, call.model1)
          IN  /\ call.result.nil <=>
                    ~HasRecordedTask(call.model1) \/ ~HasRecordedTask(call.model2)
              /\ call.result.nil <=> reverse.nil
              /\ ~call.result.nil =>
                    call.result.TaskDiff = 0 - reverse.TaskDiff]_vars

\* C33: CompareModels("sonnet-4.5", "gpt-5.2") has returned a comparison of
\* two models with tasks, sonnet-4.5 with two more than gpt-5.2.
C33_Witness ==
    /\ callers.reader.pc = "compared"
    /\ callers.reader.model1 = "sonnet-4.5"
    /\ callers.reader.model2 = "gpt-5.2"
    /\ ~callers.reader.result.nil
    /\ callers.reader.result.TaskDiff = 2

\* C34 (SpecSweep): once the context of StartBackgroundRecovery is cancelled,
\* the sweep promotes no breaker from open to half-open and records the
\* outcome of no probe.
C34_CancelStopsSweep ==
    [][sweep.cancelled =>
          /\ \A p \in DOMAIN circuitBreaker :
                ~(circuitBreaker[p].State = "open"
                  /\ circuitBreaker'[p].State = "half-open")
          /\ ~(sweep.pc = "probe" /\ last'.call = "MaybeRecover"
               /\ last' # last)]_vars

\* the mutexes that goroutine g holds
Holds(g) ==
    {m \in {"fm", "r"} : locks.mu[m].writer = g \/ g \in locks.mu[m].readers}

\* goroutine g is inside a method and its next operation can be done now
CanStep(g) ==
    /\ locks.run[g] # <<>>
    /\ Head(locks.run[g]).op \in {"Lock", "RLock"}
          => CanAcquire(g, Head(locks.run[g]))

\* the probe of the sweep is in flight
Probing ==
    locks.run["sweep"] # <<>> /\ Head(locks.run["sweep"]).op = "http"

\* C35 (SpecLocks): while a probe of the sweep is in flight the sweep holds
\* neither mutex, and of the other goroutines that are inside a method one
\* can do its next operation without any step of the sweep; and whenever
\* some goroutine is inside a method, some goroutine can do its next
\* operation (no deadlock).
C35_SweepDoesNotBlock ==
    /\ Probing => Holds("sweep") = {}
    /\ Probing /\ (\E g \in Goroutines \ {"sweep"} : locks.run[g] # <<>>)
          => \E g \in Goroutines \ {"sweep"} : CanStep(g)
    /\ (\E g \in Goroutines : locks.run[g] # <<>>)
          => \E g \in Goroutines : CanStep(g)

\* C35: a probe of the sweep is in flight while RouteWithFallback is inside
\* Router.Route and a recording holds fm.mu
C35_Witness ==
    /\ Probing
    /\ "router" \in locks.mu["r"].readers
    /\ locks.mu["fm"].writer = "recorder"

\* C36 (SpecDisabled): a result that Route or RouteWithFallback returns never
\* names a provider that the configuration switches off.
C36_NeverRoutesToDisabled ==
    route.pc = "done" /\ route.result.ok
        => \/ route.result.Provider \notin DOMAIN config.Providers
           \/ config.Providers[route.result.Provider].Enabled

\* the sum of the costs that the executor reported for the calls
RECURSIVE CostOf(_)
CostOf(calls) ==
    IF calls = <<>> THEN 0
    ELSE Head(calls).answer.response.Cost + CostOf(Tail(calls))

\* C37 (SpecChain): the TotalCost of a chain that has returned is the sum of
\* the costs of the steps it executed, whatever their outcome.
C37_TotalCost ==
    chain.pc = "done" => chain.result.TotalCost = CostOf(chain.calls)

\* C38 (SpecRoute): a provider whose breaker is open is marked unavailable
\* in the Router's provider status.
C38_OpenIsUnavailable ==
    \A p \in DOMAIN circuitBreaker :
        circuitBreaker[p].State = "open"
            => p \in DOMAIN providerStatus /\ ~providerStatus[p]

\* C39 (SpecRoute): the exclusions with which RouteWithFallback calls Route
\* are those the caller supplied (none, in the requests of SpecRoute) and
\* the providers whose breaker is open at the time of that call.
C39_ExclusionsOfThisCall ==
    route.pc = "routing" =>
        \A k \in 1..Len(req.ExcludeProviders) :
            req.ExcludeProviders[k] \in route.openAtCall

\* C40 (SpecRoute): RouteWithFallback on a request that prefers the model of
\* an enabled provider whose breaker is closed or half-open at the time of
\* the call, and that the caller did not exclude, returns that model.
C40_OnlyOpenVetoes ==
    route.pc = "done" /\ req.PreferredModel # "" /\ last.call = "RouteWithFallback" =>
        LET provider == ModelProvider(req.PreferredModel)
        IN  /\ provider \in DOMAIN config.Providers
            /\ config.Providers[provider].Enabled
            /\ provider \notin route.openAtCall
            /\ ~contains(req.ExcludeProviders, provider)
            => route.result.ok /\ route.result.Model = req.PreferredModel

=============================================================================
